---- MODULE Spec2Model ----
(***************************************************************************)
(* Model of the table change detector of app/bin/app.py: the DDL text      *)
(* normalisation, the balanced-parenthesis column extractor, the clause    *)
(* indexer/segmenter and the eight ordered comparators of                  *)
(* has_table_structure_changed, and of its caller process_athena_tables    *)
(* with the queries it submits.                                            *)
(*                                                                         *)
(* Python strings are TLA+ strings, offsets are 0-based as in Python, and  *)
(* Python dictionaries are functions whose DOMAIN is the set of keys.      *)
(***************************************************************************)
EXTENDS Integers, Sequences, FiniteSets, TLC

VARIABLES
    ddl_text,                         \* raw DDL text read for the table
    table_metadata,                   \* catalog snapshot (get_tables element)
    ddl_clauses_list,                 \* module-level catalog of top-level clause markers
    ddl_row_format_subclauses_list,   \* module-level catalog of ROW FORMAT sub-clause markers
    pc,                               \* position inside detect_table_changes / has_table_structure_changed
    normalized_ddl_text,              \* local of detect_table_changes
    ddl_columns_segment,              \* locals of has_table_structure_changed
    ddl_other_segments,
    ddl_clause_list_sorted,
    ddl_segments,
    calls,                            \* comparators invoked by the running call, with their results
    outcome,                          \* outcome of the running call of has_table_structure_changed
    history,                          \* outcomes of the calls that finished before the running one
    split_text,                       \* argument of a stand-alone split_ddl_columns_segment call
    split_result,                     \* its result
    row_format_subclauses_list_sorted,  \* locals of has_row_format_changed
    row_format_sub_segments,
    tables_metadata_list,             \* local of process_athena_tables: the catalog's tables
    athena_tables,                    \* config_dict['athena_tables']: the configured tables
    table_index,                      \* position of the for loop of process_athena_tables
    executed_queries                  \* queries handed to execute_query, with their states

vars == << ddl_text, table_metadata, ddl_clauses_list, ddl_row_format_subclauses_list, pc,
           normalized_ddl_text, ddl_columns_segment, ddl_other_segments, ddl_clause_list_sorted,
           ddl_segments, calls, outcome, history, split_text, split_result,
           row_format_subclauses_list_sorted, row_format_sub_segments,
           tables_metadata_list, athena_tables, table_index, executed_queries >>

row_format_vars == << row_format_subclauses_list_sorted, row_format_sub_segments >>

caller_vars == << tables_metadata_list, athena_tables, table_index, executed_queries >>

(***************************************************************************)
(* Program constants                                                       *)
(***************************************************************************)
NOT_FOUND == -1

AVRO_STORAGE_FORMAT == "org.apache.hadoop.hive.ql.io.avro.AvroContainerInputFormat"
ORC_STORAGE_FORMAT == "org.apache.hadoop.hive.ql.io.orc.OrcInputFormat"
PARQUET_STORAGE_FORMAT == "org.apache.hadoop.hive.ql.io.parquet.MapredParquetInputFormat"
RCFILE_STORAGE_FORMAT == "org.apache.hadoop.hive.ql.io.RCFileInputFormat"
SEQUENCEFILE_STORAGE_FORMAT == "org.apache.hadoop.mapred.SequenceFileInputFormat"
TEXTFILE_STORAGE_FORMAT == "org.apache.hadoop.mapred.TextInputFormat"
ROW_FORMAT_WITH_SERDEPROPERTIES == "with serdeproperties"
ROW_FORMAT_SERDE == "serde"
ROW_FORMAT_DELIMITED == "delimited"

\* Initial value of the module-level list ddl_clauses_list.
InitialDdlClausesList ==
    << " comment '", " partitioned by ", " clustered by ", " row format ", " stored as ",
       " location 's3:", " tblproperties " >>

\* Initial value of the module-level list ddl_row_format_subclauses_list.
InitialDdlRowFormatSubclausesList ==
    << " fields terminated by '", " escaped by '", " collection items terminated by '",
       " map keys terminated by '", " lines terminated by '", " null defined as '",
       " serde '", " with serdeproperties (", " delimited " >>

(***************************************************************************)
(* Python built-ins used by the detector                                   *)
(***************************************************************************)
\* s[i]
CharAt(s, i) == SubSeq(s, i + 1, i + 1)

\* Python's clamping of a slice bound
SliceIndex(s, i) ==
    IF i < 0 THEN (IF Len(s) + i < 0 THEN 0 ELSE Len(s) + i)
    ELSE IF i > Len(s) THEN Len(s) ELSE i

\* s[a:b]
Slice(s, a, b) ==
    LET lo == SliceIndex(s, a)
        hi == SliceIndex(s, b)
    IN  IF hi <= lo THEN "" ELSE SubSeq(s, lo + 1, hi)

\* s[a:]
SliceFrom(s, a) == Slice(s, a, Len(s))

\* sub occurs in s at offset i
OccursAt(s, sub, i) == SubSeq(s, i + 1, i + Len(sub)) = sub

RECURSIVE FindIn(_, _, _, _)
\* The least offset in lo..hi at which sub occurs in s, or -1; the range is
\* halved so that the search of a long text stays shallow.
FindIn(s, sub, lo, hi) ==
    IF hi - lo < 24
    THEN IF \E i \in lo..hi : OccursAt(s, sub, i)
         THEN CHOOSE i \in lo..hi : OccursAt(s, sub, i) /\ \A j \in lo..(i - 1) : ~OccursAt(s, sub, j)
         ELSE NOT_FOUND
    ELSE LET mid == (lo + hi) \div 2
             left == FindIn(s, sub, lo, mid)
         IN  IF left # NOT_FOUND THEN left ELSE FindIn(s, sub, mid + 1, hi)

\* s.find(sub): offset of the first occurrence, or -1
Find(s, sub) == FindIn(s, sub, 0, Len(s) - Len(sub))

\* sub in s
Contains(s, sub) == Find(s, sub) >= 0

\* s.startswith(prefix)
StartsWith(s, prefix) == Len(prefix) <= Len(s) /\ SubSeq(s, 1, Len(prefix)) = prefix

RECURSIVE Replace(_, _, _)
\* s.replace(old, new), old non-empty: non-overlapping occurrences, left to right
Replace(s, old, new) ==
    LET i == Find(s, old)
    IN  IF i = NOT_FOUND THEN s
        ELSE Slice(s, 0, i) \o new \o Replace(SliceFrom(s, i + Len(old)), old, new)

WhitespaceChars == {" ", "\t", "\n", "\r", "\f"}

RECURSIVE LStripChars(_, _)
LStripChars(s, chars) ==
    IF Len(s) > 0 /\ CharAt(s, 0) \in chars THEN LStripChars(SliceFrom(s, 1), chars) ELSE s

RECURSIVE RStripChars(_, _)
\* s.rstrip(chars)
RStripChars(s, chars) ==
    IF Len(s) > 0 /\ CharAt(s, Len(s) - 1) \in chars
    THEN RStripChars(Slice(s, 0, Len(s) - 1), chars) ELSE s

\* s.strip(chars)
StripChars(s, chars) == RStripChars(LStripChars(s, chars), chars)

\* s.strip()
Strip(s) == StripChars(s, WhitespaceChars)

RECURSIVE SplitMax(_, _, _)
\* s.split(sep, maxsplit); maxsplit = -1 for no limit
SplitMax(s, sep, maxsplit) ==
    LET i == Find(s, sep)
    IN  IF maxsplit = 0 \/ i = NOT_FOUND THEN << s >>
        ELSE << Slice(s, 0, i) >> \o SplitMax(SliceFrom(s, i + Len(sep)), sep, maxsplit - 1)

\* s.split(sep)
Split(s, sep) == SplitMax(s, sep, -1)

\* The lower-case form of every upper-case ASCII letter.
LowerCaseOf ==
    [A |-> "a", B |-> "b", C |-> "c", D |-> "d", E |-> "e", F |-> "f", G |-> "g",
     H |-> "h", I |-> "i", J |-> "j", K |-> "k", L |-> "l", M |-> "m", N |-> "n",
     O |-> "o", P |-> "p", Q |-> "q", R |-> "r", S |-> "s", T |-> "t", U |-> "u",
     V |-> "v", W |-> "w", X |-> "x", Y |-> "y", Z |-> "z"]

LowerChar(c) == IF c \in DOMAIN LowerCaseOf THEN LowerCaseOf[c] ELSE c

RECURSIVE Lower(_)
\* s.lower(), character by character
Lower(s) ==
    IF Len(s) = 0 THEN ""
    ELSE IF Len(s) = 1 THEN LowerChar(s)
    ELSE Lower(SubSeq(s, 1, Len(s) \div 2)) \o Lower(SubSeq(s, Len(s) \div 2 + 1, Len(s)))

\* An optional Python value: None, or a value v.
None == << >>
Some(v) == << v >>

\* Outcome of a Python call: a returned value or a raised exception.
Return(v) == [kind |-> "return", val |-> v, err |-> ""]
Raise(e) == [kind |-> "raise", val |-> FALSE, err |-> e]

(***************************************************************************)
(* split_ddl_columns_segment                                               *)
(***************************************************************************)
\* The offset of the first parenthesis at or after offset i, Len(text) when there is none.
NextParenthesis(text, i) ==
    LET open == FindIn(text, "(", i, Len(text) - 1)
        close == FindIn(text, ")", i, Len(text) - 1)
    IN  IF open = NOT_FOUND /\ close = NOT_FOUND THEN Len(text)
        ELSE IF open = NOT_FOUND THEN close
        ELSE IF close = NOT_FOUND THEN open
        ELSE IF open < close THEN open ELSE close

RECURSIVE ScanParentheses(_, _, _, _, _)
\* ScanParentheses with a closing parenthesis met on an empty stack skipped
\* instead of failing the pop.
ScanParenthesesSkippingStrayClose(text, i, stack, index_dict, p_count) ==
    LET j == NextParenthesis(text, i)
    IN  IF j >= Len(text) THEN [status |-> "exhausted", stack |-> stack, index_dict |-> index_dict]
        ELSE IF CharAt(text, j) = "("
        THEN ScanParentheses(text, j + 1, Append(stack, j), index_dict, p_count + 1)
        ELSE IF stack = << >>
        THEN ScanParentheses(text, j + 1, stack, index_dict, p_count)
        ELSE LET popped == stack[Len(stack)]
                 stack2 == SubSeq(stack, 1, Len(stack) - 1)
                 dict2 == Append(index_dict, << popped, j >>)
             IN  IF p_count - 1 = 0
                 THEN [status |-> "break", stack |-> stack2, index_dict |-> dict2]
                 ELSE ScanParentheses(text, j + 1, stack2, dict2, p_count - 1)

\* The for loop from offset i on: stack holds the offsets of the open
\* parentheses, index_dict the (open, close) pairs in insertion order, p_count
\* the depth.  Characters other than parentheses change nothing and are skipped.
ScanParentheses(text, i, stack, index_dict, p_count) ==
    LET j == NextParenthesis(text, i)
    IN  IF j >= Len(text) THEN [status |-> "exhausted", stack |-> stack, index_dict |-> index_dict]
        ELSE IF CharAt(text, j) = "("
        THEN ScanParentheses(text, j + 1, Append(stack, j), index_dict, p_count + 1)
        ELSE IF stack = << >>
        THEN [status |-> "IndexError", stack |-> stack, index_dict |-> index_dict]
        ELSE LET popped == stack[Len(stack)]
                 stack2 == SubSeq(stack, 1, Len(stack) - 1)
                 dict2 == Append(index_dict, << popped, j >>)
             IN  IF p_count - 1 = 0
                 THEN [status |-> "break", stack |-> stack2, index_dict |-> dict2]
                 ELSE ScanParentheses(text, j + 1, stack2, dict2, p_count - 1)

SplitOk(columns, remainder) ==
    [kind |-> "return", columns |-> columns, remainder |-> remainder, err |-> ""]
SplitRaise(e) == [kind |-> "raise", columns |-> "", remainder |-> "", err |-> e]

\* split_ddl_columns_segment taking the first recorded pair of offsets (the
\* innermost group closed first) instead of the last one.
split_ddl_columns_segment_first_pair(text) ==
    LET scan == ScanParentheses(text, 0, << >>, << >>, 0)
    IN  IF scan.status = "IndexError" THEN SplitRaise("IndexError")
        ELSE IF scan.stack # << >>
        THEN SplitRaise("Encountered unbalanced parentheses while parsing the columns list in DDL")
        ELSE IF scan.index_dict = << >> THEN SplitRaise("IndexError: list index out of range")
        ELSE LET columns_list_start_end == scan.index_dict[1]
             IN  SplitOk(Strip(Slice(text, columns_list_start_end[1] + 1, columns_list_start_end[2])),
                         SliceFrom(text, columns_list_start_end[2] + 1))

split_ddl_columns_segment(text) ==
    LET scan == ScanParentheses(text, 0, << >>, << >>, 0)
    IN  IF scan.status = "IndexError" THEN SplitRaise("IndexError")
        ELSE IF scan.stack # << >>
        THEN SplitRaise("Encountered unbalanced parentheses while parsing the columns list in DDL")
        ELSE IF scan.index_dict = << >> THEN SplitRaise("IndexError: list index out of range")
        ELSE LET columns_list_start_end == scan.index_dict[Len(scan.index_dict)]
             IN  SplitOk(Strip(Slice(text, columns_list_start_end[1] + 1, columns_list_start_end[2])),
                         SliceFrom(text, columns_list_start_end[2] + 1))

(***************************************************************************)
(* index_ddl_clauses and segmentize_ddl_by_clause                          *)
(***************************************************************************)
\* ClauseEntry without the rule for the table comment: the marker comment '
\* is recorded wherever it first occurs, like every other marker.
ClauseEntryAtAnyOffset(ddl_segment_text, clause) ==
    LET stripped == Strip(clause)
        clause_index == Find(ddl_segment_text, stripped)
    IN  [Clause |-> stripped,
         Index |-> IF clause_index >= 0 THEN clause_index ELSE NOT_FOUND]

\* One iteration of the for loop of index_ddl_clauses: the dictionary copy
\* appended for one clause of the catalog.
ClauseEntry(ddl_segment_text, clause) ==
    LET stripped == Strip(clause)
        clause_index == Find(ddl_segment_text, stripped)
    IN  [Clause |-> stripped,
         Index |-> IF stripped = "comment '"
                   THEN (IF clause_index = 0 THEN clause_index ELSE NOT_FOUND)
                   ELSE (IF clause_index >= 0 THEN clause_index ELSE NOT_FOUND)]

RECURSIVE InsertByIndex(_, _)
\* Insert e behind every entry whose Index is not larger (sorted() is stable).
InsertByIndex(sorted, e) ==
    IF sorted = << >> THEN << e >>
    ELSE IF sorted[Len(sorted)].Index <= e.Index THEN Append(sorted, e)
    ELSE Append(InsertByIndex(SubSeq(sorted, 1, Len(sorted) - 1), e), sorted[Len(sorted)])

RECURSIVE SortedByIndex(_)
\* sorted(ddl_clause_list, key=lambda x: x['Index'])
SortedByIndex(list) ==
    IF list = << >> THEN << >>
    ELSE InsertByIndex(SortedByIndex(SubSeq(list, 1, Len(list) - 1)), list[Len(list)])

index_ddl_clauses(ddl_segment_text, clauses_list) ==
    SortedByIndex([i \in 1..Len(clauses_list) |-> ClauseEntry(ddl_segment_text, clauses_list[i])])

RECURSIVE SegmentsUpTo(_, _, _)
\* The for loop of segmentize_ddl_by_clause over i in range(0, n): entries 1..n
\* of the sorted list, each sliced up to the Index of its successor.
SegmentsUpTo(text, clauses_list_sorted, n) ==
    IF n = 0 THEN << >>
    ELSE LET before == SegmentsUpTo(text, clauses_list_sorted, n - 1)
         IN  IF clauses_list_sorted[n].Index # NOT_FOUND
             THEN Append(before, Strip(Slice(text, clauses_list_sorted[n].Index,
                                             clauses_list_sorted[n + 1].Index)))
             ELSE before

\* segmentize_ddl_by_clause without the statements behind its loop: the
\* segment of the last marker is not cut.
segmentize_ddl_by_clause_without_last(text, clauses_list_sorted) ==
    SegmentsUpTo(text, clauses_list_sorted, Len(clauses_list_sorted) - 1)

segmentize_ddl_by_clause(text, clauses_list_sorted) ==
    LET n == Len(clauses_list_sorted)
        inner == SegmentsUpTo(text, clauses_list_sorted, n - 1)
    IN  IF clauses_list_sorted[n].Index # NOT_FOUND
        THEN Append(inner, Strip(Slice(text, clauses_list_sorted[n].Index, Len(text))))
        ELSE inner

RECURSIVE SegmentStartingWith(_, _)
\* next((segment for segment in segments if segment.startswith(prefix)), None)
SegmentStartingWith(segments, prefix) ==
    IF segments = << >> THEN None
    ELSE IF StartsWith(Head(segments), prefix) THEN Some(Head(segments))
    ELSE SegmentStartingWith(Tail(segments), prefix)

RECURSIVE SegmentContaining(_, _)
\* next((segment for segment in segments if word in segment), None)
SegmentContaining(segments, word) ==
    IF segments = << >> THEN None
    ELSE IF Contains(Head(segments), word) THEN Some(Head(segments))
    ELSE SegmentContaining(Tail(segments), word)

(***************************************************************************)
(* Comparators: columns, table comment, partitioning, clustering           *)
(***************************************************************************)
RECURSIVE CollapseSpaces(_)
\* while '  ' in s: s = s.replace('  ', ' ').replace(' ,', ',')
CollapseSpaces(s) ==
    IF Contains(s, "  ") THEN CollapseSpaces(Replace(Replace(s, "  ", " "), " ,", ",")) ELSE s

\* The text one metadata column adds to meta_columns.
MetaColumnText(column) ==
    IF "Comment" \in DOMAIN column
    THEN " " \o column.Name \o " " \o column.Type \o " comment '"
             \o Replace(column.Comment, "'", "\\'") \o "'" \o ","
    ELSE " " \o column.Name \o " " \o column.Type \o ","

RECURSIVE MetaColumnsText(_, _)
MetaColumnsText(columns, n) ==
    IF n = 0 THEN "" ELSE MetaColumnsText(columns, n - 1) \o MetaColumnText(columns[n])

have_columns_changed(metadata, ddl_columns) ==
    LET columns == metadata.StorageDescriptor.Columns
        joined == MetaColumnsText(columns, Len(columns))
        meta_columns == CollapseSpaces(Strip(Slice(joined, 0, -1)))
    IN  Return(ddl_columns # Lower(meta_columns))

has_table_comment_changed(metadata, segments) ==
    LET seg == SegmentStartingWith(segments, "comment")
    IN  IF "comment" \notin DOMAIN metadata.Parameters
        THEN Return(seg # None)
        ELSE IF seg = None THEN Return(TRUE)
        ELSE LET metadata_comment == Lower(Replace(metadata.Parameters["comment"], "'", "\\'"))
                 parts == SplitMax(seg[1], " ", 1)
             IN  IF Len(parts) # 2 THEN Raise("ValueError")
                 ELSE Return(metadata_comment # StripChars(parts[2], {"'"}))

\* The text one partition key adds to metadata_partition.
MetaPartitionText(element) ==
    IF "Comment" \in DOMAIN element
    THEN Lower(element.Name) \o " " \o Lower(element.Type) \o " comment '"
             \o Lower(Replace(element.Comment, "'", "\\'")) \o "'"
    ELSE Lower(element.Name) \o " " \o Lower(element.Type)

RECURSIVE MetaPartitionsText(_, _)
MetaPartitionsText(keys, n) ==
    IF n = 1 THEN MetaPartitionText(keys[1])
    ELSE MetaPartitionsText(keys, n - 1) \o ", " \o MetaPartitionText(keys[n])

has_partitioning_changed(metadata, segments) ==
    LET seg == SegmentStartingWith(segments, "partitioned by")
        keys == metadata.PartitionKeys
    IN  IF Len(keys) = 0 THEN Return(seg # None)
        ELSE IF seg = None THEN Return(TRUE)
        ELSE LET parts == SplitMax(seg[1], "(", 1)
             IN  IF Len(parts) # 2 THEN Raise("ValueError")
                 ELSE LET ddl_segment_value == Strip(Slice(parts[2], 0, -1))
                      IN  Return(MetaPartitionsText(keys, Len(keys)) # ddl_segment_value)

RECURSIVE MetaClusterText(_, _)
MetaClusterText(bucket_columns, n) ==
    IF n = 1 THEN Lower(bucket_columns[1])
    ELSE MetaClusterText(bucket_columns, n - 1) \o ", " \o Lower(bucket_columns[n])

\* has_clustering_changed comparing the column lists only: the bucket count
\* is left out of both texts.
has_clustering_changed_by_columns(metadata, segments) ==
    LET seg == SegmentStartingWith(segments, "clustered by")
        metadata_bucket_columns == metadata.StorageDescriptor.BucketColumns
    IN  IF Len(metadata_bucket_columns) = 0 THEN Return(seg # None)
        ELSE IF seg = None THEN Return(TRUE)
        ELSE LET parts == SplitMax(seg[1], "(", 1)
             IN  IF Len(parts) # 2 THEN Raise("ValueError")
                 ELSE LET ddl_segment_value == Strip(Split(parts[2], ")")[1])
                          metadata_cluster ==
                              MetaClusterText(metadata_bucket_columns, Len(metadata_bucket_columns))
                      IN  Return(metadata_cluster # ddl_segment_value)

has_clustering_changed(metadata, segments) ==
    LET seg == SegmentStartingWith(segments, "clustered by")
        metadata_bucket_columns == metadata.StorageDescriptor.BucketColumns
    IN  IF Len(metadata_bucket_columns) = 0 THEN Return(seg # None)
        ELSE IF seg = None THEN Return(TRUE)
        ELSE LET parts == SplitMax(seg[1], "(", 1)
             IN  IF Len(parts) # 2 THEN Raise("ValueError")
                 ELSE LET ddl_segment_value == Strip(Replace(parts[2], ")", ""))
                          metadata_cluster ==
                              MetaClusterText(metadata_bucket_columns, Len(metadata_bucket_columns))
                                  \o " into " \o ToString(metadata.StorageDescriptor.NumberOfBuckets)
                                  \o " buckets"
                      IN  Return(metadata_cluster # ddl_segment_value)

(***************************************************************************)
(* json.dumps, json.loads, DeepDiff and dictionary comprehensions          *)
(***************************************************************************)
EmptyDict == [k \in {} |-> ""]

\* dict((k.lower(), v.lower()) for k, v in d.items())
LowerDict(d) ==
    [k \in {Lower(key) : key \in DOMAIN d} |->
        Lower(d[CHOOSE key \in DOMAIN d : Lower(key) = k])]

\* {key: value for key, value in d.items() if keep(key)}, keep given as a set of keys
RestrictDict(d, keys) == [k \in (DOMAIN d) \cap keys |-> d[k]]

JsonEscapeChar(c) ==
    CASE c = "\"" -> "\\\""
      [] c = "\\" -> "\\\\"
      [] c = "\n" -> "\\n"
      [] c = "\r" -> "\\r"
      [] c = "\t" -> "\\t"
      [] c = "\f" -> "\\f"
      [] OTHER -> c

RECURSIVE JsonEscape(_)
JsonEscape(s) ==
    IF Len(s) = 0 THEN ""
    ELSE IF Len(s) = 1 THEN JsonEscapeChar(s)
    ELSE JsonEscape(SubSeq(s, 1, Len(s) \div 2)) \o JsonEscape(SubSeq(s, Len(s) \div 2 + 1, Len(s)))

\* json.dumps(s) of a string of printable ASCII and \n \r \t \f
JsonDumps(s) == "\"" \o JsonEscape(s) \o "\""

JsonWhitespace == {" ", "\t", "\n", "\r"}

RECURSIVE JsonSkipWhitespace(_, _)
JsonSkipWhitespace(s, i) ==
    IF i < Len(s) /\ CharAt(s, i) \in JsonWhitespace THEN JsonSkipWhitespace(s, i + 1) ELSE i

JsonUnescapeChar(c) ==
    CASE c = "n" -> "\n"
      [] c = "r" -> "\r"
      [] c = "t" -> "\t"
      [] c = "f" -> "\f"
      [] OTHER -> c

RECURSIVE JsonScanString(_, _, _)
\* The decoder's scan of a string literal whose opening quote precedes offset i.
\* \b and \uXXXX escapes are outside this model.
JsonScanString(s, i, acc) ==
    IF i >= Len(s) THEN [ok |-> FALSE, val |-> "", next |-> i]
    ELSE IF CharAt(s, i) = "\"" THEN [ok |-> TRUE, val |-> acc, next |-> i + 1]
    ELSE IF CharAt(s, i) \in {"\n", "\r", "\t", "\f"} THEN [ok |-> FALSE, val |-> "", next |-> i]
    ELSE IF CharAt(s, i) = "\\"
    THEN IF i + 1 < Len(s) /\ CharAt(s, i + 1) \in {"\"", "\\", "/", "n", "r", "t", "f"}
         THEN JsonScanString(s, i + 2, acc \o JsonUnescapeChar(CharAt(s, i + 1)))
         ELSE [ok |-> FALSE, val |-> "", next |-> i]
    ELSE JsonScanString(s, i + 1, acc \o CharAt(s, i))

RECURSIVE JsonScanMembers(_, _, _)
\* The members of an object whose values are string literals, from offset i on;
\* a later duplicate of a key replaces the earlier one.
JsonScanMembers(s, i, dict) ==
    IF ~(i < Len(s) /\ CharAt(s, i) = "\"") THEN [ok |-> FALSE, dict |-> EmptyDict]
    ELSE LET key == JsonScanString(s, i + 1, "")
             colon == JsonSkipWhitespace(s, key.next)
         IN  IF ~key.ok \/ ~(colon < Len(s) /\ CharAt(s, colon) = ":")
             THEN [ok |-> FALSE, dict |-> EmptyDict]
             ELSE LET quote == JsonSkipWhitespace(s, colon + 1)
                  IN  IF ~(quote < Len(s) /\ CharAt(s, quote) = "\"")
                      THEN [ok |-> FALSE, dict |-> EmptyDict]
                      ELSE LET value == JsonScanString(s, quote + 1, "")
                               after == JsonSkipWhitespace(s, value.next)
                               dict2 == (key.val :> value.val) @@ dict
                           IN  IF ~value.ok \/ after >= Len(s) THEN [ok |-> FALSE, dict |-> EmptyDict]
                               ELSE IF CharAt(s, after) = "}"
                               THEN [ok |-> JsonSkipWhitespace(s, after + 1) = Len(s),
                                     dict |-> dict2]
                               ELSE IF CharAt(s, after) = ","
                               THEN JsonScanMembers(s, JsonSkipWhitespace(s, after + 1), dict2)
                               ELSE [ok |-> FALSE, dict |-> EmptyDict]

\* json.loads(s) for a text that is an object of string members;
\* ok = FALSE stands for json.JSONDecodeError.
JsonLoads(s) ==
    LET open == JsonSkipWhitespace(s, 0)
    IN  IF ~(open < Len(s) /\ CharAt(s, open) = "{") THEN [ok |-> FALSE, dict |-> EmptyDict]
        ELSE LET first == JsonSkipWhitespace(s, open + 1)
             IN  IF first < Len(s) /\ CharAt(s, first) = "}"
                 THEN [ok |-> JsonSkipWhitespace(s, first + 1) = Len(s), dict |-> EmptyDict]
                 ELSE JsonScanMembers(s, first, EmptyDict)

\* len(DeepDiff(a, b, ignore_order=True)) > 0 for two flat dictionaries of strings
DeepDiffNonEmpty(a, b) == a # b

(***************************************************************************)
(* Comparator: row format                                                  *)
(***************************************************************************)
RECURSIVE RowFormatTypeFrom(_, _, _)
\* The for loop of determine_row_format_type from entry i on; current is the
\* value of ddl_row_format_type so far (None before any match).
RowFormatTypeFrom(list, i, current) ==
    IF i > Len(list) THEN current
    ELSE IF list[i].Clause = "with serdeproperties (" /\ list[i].Index # NOT_FOUND
    THEN Some(ROW_FORMAT_WITH_SERDEPROPERTIES)
    ELSE IF list[i].Clause = "serde '" /\ list[i].Index # NOT_FOUND
    THEN RowFormatTypeFrom(list, i + 1, Some(ROW_FORMAT_SERDE))
    ELSE IF list[i].Clause = "delimited" /\ list[i].Index # NOT_FOUND
    THEN Some(ROW_FORMAT_DELIMITED)
    ELSE RowFormatTypeFrom(list, i + 1, current)

determine_row_format_type(subclauses_list_sorted) ==
    LET ddl_row_format_type == RowFormatTypeFrom(subclauses_list_sorted, 1, None)
    IN  IF ddl_row_format_type = None
        THEN Raise("Unable to find any of the expected ROW FORMATS")
        ELSE Return(ddl_row_format_type[1])

\* json.dumps(parameters[key]) inside try/except KeyError
MetaDelimiter(parameters, key) ==
    IF key \in DOMAIN parameters THEN Some(JsonDumps(parameters[key])) ELSE None

get_meta_row_format_delimiters(metadata) ==
    LET parms == metadata.StorageDescriptor.SerdeInfo.Parameters
    IN  [escape |-> MetaDelimiter(parms, "escape.delim"),
         field |-> MetaDelimiter(parms, "field.delim"),
         collection |-> MetaDelimiter(parms, "colelction.delim"),
         serialization_format |-> MetaDelimiter(parms, "serialization.format"),
         map_keys |-> MetaDelimiter(parms, "mapkey.delim"),
         line |-> MetaDelimiter(parms, "line.delim"),
         ser_null_format |-> MetaDelimiter(parms, "serialization.null.format")]

\* '"' + ddl_row_format_delimiter.replace(prefix, "").rstrip("'") + '"'
DdlJsonChar(ddl_row_format_delimiter, prefix) ==
    "\"" \o RStripChars(Replace(ddl_row_format_delimiter, prefix, ""), {"'"}) \o "\""

\* have_row_format_delimiters_changed with serialization.format counted among the
\* delimiters whose presence means a ROW FORMAT DELIMITED table.
have_row_format_delimiters_changed_counting_format(metadata, ddl_row_format_delimiter, ddl_row_format_delimiter_type) ==
    LET table_metadata_serialization_lib == metadata.StorageDescriptor.SerdeInfo.SerializationLibrary
        meta == get_meta_row_format_delimiters(metadata)
    IN  IF ddl_row_format_delimiter_type = None
        THEN IF \/ meta.escape # None \/ meta.field # None \/ meta.collection # None
                \/ meta.map_keys # None \/ meta.line # None \/ meta.ser_null_format # None
                \/ meta.serialization_format # None
             THEN Return(TRUE)
             ELSE Return(~StartsWith(table_metadata_serialization_lib, "org.apache."))
        ELSE IF ddl_row_format_delimiter_type = Some("no properties")
        THEN Return(meta.serialization_format # Some("\"1\""))
        ELSE IF ddl_row_format_delimiter_type = Some("fields escaped")
        THEN LET parts == Split(ddl_row_format_delimiter[1], " escaped by '")
             IN  IF Len(parts) # 2 THEN Raise("ValueError")
                 ELSE LET ddl_json_fields_terminated_by_char ==
                              DdlJsonChar(parts[1], "fields terminated by '")
                          ddl_json_escaped_by_char == "\"" \o RStripChars(parts[2], {"'"}) \o "\""
                      IN  IF meta.field = Some(ddl_json_fields_terminated_by_char)
                          THEN Return(meta.escape # Some(ddl_json_escaped_by_char))
                          ELSE Return(TRUE)
        ELSE IF ddl_row_format_delimiter_type = Some("fields")
        THEN LET ddl_json_fields_terminated_by_char ==
                     DdlJsonChar(ddl_row_format_delimiter[1], "fields terminated by '")
             IN  IF meta.serialization_format = Some("\"1\"")
                        /\ ddl_json_fields_terminated_by_char = "\"|\""
                 THEN Return(FALSE)
                 ELSE Return(meta.field # Some(ddl_json_fields_terminated_by_char))
        ELSE IF ddl_row_format_delimiter_type = Some("collection")
        THEN Return(meta.collection #
                        Some(DdlJsonChar(ddl_row_format_delimiter[1], "collection items terminated by '")))
        ELSE IF ddl_row_format_delimiter_type = Some("map keys")
        THEN Return(meta.map_keys #
                        Some(DdlJsonChar(ddl_row_format_delimiter[1], "map keys terminated by '")))
        ELSE IF ddl_row_format_delimiter_type = Some("lines")
        THEN Return(meta.line #
                        Some(DdlJsonChar(ddl_row_format_delimiter[1], "lines terminated by '")))
        ELSE IF ddl_row_format_delimiter_type = Some("null defined")
        THEN Return(meta.ser_null_format #
                        Some(DdlJsonChar(ddl_row_format_delimiter[1], "null defined as '")))
        ELSE Raise("Function received an invalid ddl_row_format_delimiter_type parameter!")

\* ddl_row_format_delimiter and ddl_row_format_delimiter_type are optional arguments.
have_row_format_delimiters_changed(metadata, ddl_row_format_delimiter, ddl_row_format_delimiter_type) ==
    LET table_metadata_serialization_lib == metadata.StorageDescriptor.SerdeInfo.SerializationLibrary
        meta == get_meta_row_format_delimiters(metadata)
    IN  IF ddl_row_format_delimiter_type = None
        THEN IF \/ meta.escape # None \/ meta.field # None \/ meta.collection # None
                \/ meta.map_keys # None \/ meta.line # None \/ meta.ser_null_format # None
             THEN Return(TRUE)
             ELSE Return(~StartsWith(table_metadata_serialization_lib, "org.apache."))
        ELSE IF ddl_row_format_delimiter_type = Some("no properties")
        THEN Return(meta.serialization_format # Some("\"1\""))
        ELSE IF ddl_row_format_delimiter_type = Some("fields escaped")
        THEN LET parts == Split(ddl_row_format_delimiter[1], " escaped by '")
             IN  IF Len(parts) # 2 THEN Raise("ValueError")
                 ELSE LET ddl_json_fields_terminated_by_char ==
                              DdlJsonChar(parts[1], "fields terminated by '")
                          ddl_json_escaped_by_char == "\"" \o RStripChars(parts[2], {"'"}) \o "\""
                      IN  IF meta.field = Some(ddl_json_fields_terminated_by_char)
                          THEN Return(meta.escape # Some(ddl_json_escaped_by_char))
                          ELSE Return(TRUE)
        ELSE IF ddl_row_format_delimiter_type = Some("fields")
        THEN LET ddl_json_fields_terminated_by_char ==
                     DdlJsonChar(ddl_row_format_delimiter[1], "fields terminated by '")
             IN  IF meta.serialization_format = Some("\"1\"")
                        /\ ddl_json_fields_terminated_by_char = "\"|\""
                 THEN Return(FALSE)
                 ELSE Return(meta.field # Some(ddl_json_fields_terminated_by_char))
        ELSE IF ddl_row_format_delimiter_type = Some("collection")
        THEN Return(meta.collection #
                        Some(DdlJsonChar(ddl_row_format_delimiter[1], "collection items terminated by '")))
        ELSE IF ddl_row_format_delimiter_type = Some("map keys")
        THEN Return(meta.map_keys #
                        Some(DdlJsonChar(ddl_row_format_delimiter[1], "map keys terminated by '")))
        ELSE IF ddl_row_format_delimiter_type = Some("lines")
        THEN Return(meta.line #
                        Some(DdlJsonChar(ddl_row_format_delimiter[1], "lines terminated by '")))
        ELSE IF ddl_row_format_delimiter_type = Some("null defined")
        THEN Return(meta.ser_null_format #
                        Some(DdlJsonChar(ddl_row_format_delimiter[1], "null defined as '")))
        ELSE Raise("Function received an invalid ddl_row_format_delimiter_type parameter!")

\* ddl_row_format_subclauses_list[n].replace('\'', '').strip(), n counted from 0
SubclauseWord(n) == Strip(Replace(ddl_row_format_subclauses_list[n + 1], "'", ""))

RECURSIVE FirstRaiseOrAny(_)
\* FirstRaiseOrAny with the flag row_format_has_changed assigned by every call
\* instead of being set by the calls that return True: the last call decides.
FirstRaiseOrLast(results) ==
    IF results = << >> THEN Return(FALSE)
    ELSE IF Head(results).kind = "raise" \/ Tail(results) = << >> THEN Head(results)
    ELSE FirstRaiseOrAny(Tail(results))

\* The if statements of check_row_format_delimited_properties run in order:
\* the first call that raises ends the function, otherwise the flag
\* row_format_has_changed is set by every call that returns True.
FirstRaiseOrAny(results) ==
    IF results = << >> THEN Return(FALSE)
    ELSE IF Head(results).kind = "raise" THEN Head(results)
    ELSE LET rest == FirstRaiseOrAny(Tail(results))
         IN  IF rest.kind = "raise" THEN rest ELSE Return(Head(results).val \/ rest.val)

\* check_row_format_delimited_properties treating every DELIMITED clause as
\* an absent clause: the metadata is examined as for a DDL without ROW FORMAT.
check_row_format_delimited_properties_as_absent(ddl_row_format_delimited, metadata) ==
    have_row_format_delimiters_changed(metadata, None, None)

check_row_format_delimited_properties(ddl_row_format_delimited, metadata) ==
    LET ddl_fields_terminator == SegmentContaining(ddl_row_format_delimited, SubclauseWord(0))
        ddl_escaped_by == SegmentContaining(ddl_row_format_delimited, SubclauseWord(1))
        ddl_collection_terminator == SegmentContaining(ddl_row_format_delimited, SubclauseWord(2))
        ddl_map_keys_terminator == SegmentContaining(ddl_row_format_delimited, SubclauseWord(3))
        ddl_lines_terminator == SegmentContaining(ddl_row_format_delimited, SubclauseWord(4))
        ddl_null_defined == SegmentContaining(ddl_row_format_delimited, SubclauseWord(5))
        no_properties ==
            IF /\ ddl_fields_terminator = None /\ ddl_escaped_by = None
               /\ ddl_collection_terminator = None /\ ddl_map_keys_terminator = None
               /\ ddl_lines_terminator = None /\ ddl_null_defined = None
            THEN << have_row_format_delimiters_changed(metadata, None, Some("no properties")) >>
            ELSE << >>
        fields ==
            IF ddl_fields_terminator = None THEN << >>
            ELSE IF ddl_escaped_by # None
            THEN << have_row_format_delimiters_changed(
                        metadata, Some(ddl_fields_terminator[1] \o " " \o ddl_escaped_by[1]),
                        Some("fields escaped")) >>
            ELSE << have_row_format_delimiters_changed(metadata, ddl_fields_terminator, Some("fields")) >>
        collection ==
            IF ddl_collection_terminator = None THEN << >>
            ELSE << have_row_format_delimiters_changed(metadata, ddl_collection_terminator,
                                                       Some("collection")) >>
        map_keys ==
            IF ddl_map_keys_terminator = None THEN << >>
            ELSE << have_row_format_delimiters_changed(metadata, ddl_map_keys_terminator,
                                                       Some("map keys")) >>
        lines ==
            IF ddl_lines_terminator = None THEN << >>
            ELSE << have_row_format_delimiters_changed(metadata, ddl_lines_terminator, Some("lines")) >>
        null_defined ==
            IF ddl_null_defined = None THEN << >>
            ELSE << have_row_format_delimiters_changed(metadata, ddl_null_defined,
                                                       Some("null defined")) >>
    IN  FirstRaiseOrAny(no_properties \o fields \o collection \o map_keys \o lines \o null_defined)

have_serdeproperties_changed(ddl_serde_properties, metadata) ==
    LET raw == metadata.StorageDescriptor.SerdeInfo.Parameters
    IN  IF Cardinality(DOMAIN raw) = 0 THEN Return(TRUE)
        ELSE LET metadata_serde_properties == LowerDict(raw)
                 body == Strip(Replace(Replace(ddl_serde_properties, "=", ": "), "'", "\""))
                 json_text ==
                     IF "serialization.format" \in DOMAIN metadata_serde_properties
                            /\ ~Contains(ddl_serde_properties, "serialization.format")
                     THEN "{" \o body \o ", \"serialization.format\": \"1\"" \o "}"
                     ELSE "{" \o body \o "}"
                 loaded == JsonLoads(json_text)
             IN  IF ~loaded.ok THEN Raise("JSONDecodeError")
                 ELSE Return(DeepDiffNonEmpty(loaded.dict, metadata_serde_properties))

\* ddl_serde_info is an optional argument: None, or the list of ROW FORMAT sub-segments.
has_row_format_serde_changed(metadata, ddl_serde_info, ddl_row_format_type) ==
    LET table_metadata_serialization_lib == metadata.StorageDescriptor.SerdeInfo.SerializationLibrary
    IN  IF ddl_serde_info = None
        THEN Return(~StartsWith(table_metadata_serialization_lib, "org.apache."))
        ELSE IF ddl_row_format_type \notin {ROW_FORMAT_WITH_SERDEPROPERTIES, ROW_FORMAT_SERDE}
        THEN Raise("Encountered unexpected value for ddl_row_format_type function argument.")
        ELSE LET info == ddl_serde_info[1]
                 words == IF Len(info) >= 1 THEN Split(info[1], " ") ELSE << >>
                 props == IF Len(info) >= 2 THEN Split(info[2], " (") ELSE << >>
             IN  IF Len(words) < 2 THEN Raise("IndexError")
                 ELSE IF ddl_row_format_type = ROW_FORMAT_WITH_SERDEPROPERTIES /\ Len(props) < 2
                 THEN Raise("IndexError")
                 ELSE LET ddl_serde_lib == StripChars(words[2], {"'"})
                          same_lib == Return(ddl_serde_lib # Lower(table_metadata_serialization_lib))
                      IN  IF ddl_row_format_type = ROW_FORMAT_WITH_SERDEPROPERTIES
                          THEN LET changed == have_serdeproperties_changed(
                                                  StripChars(props[2], {")"}), metadata)
                               IN  IF changed.kind = "raise" \/ changed.val THEN changed
                                   ELSE same_lib
                          ELSE same_lib

has_row_format_changed(metadata, segments) ==
    LET ddl_row_format_segment == SegmentStartingWith(segments, "row format ")
    IN  IF ddl_row_format_segment = None
        THEN LET serde == has_row_format_serde_changed(metadata, None, "")
             IN  IF serde.val THEN Return(TRUE)
                 ELSE have_row_format_delimiters_changed(metadata, None, None)
        ELSE LET subclauses_list_sorted ==
                     index_ddl_clauses(ddl_row_format_segment[1], ddl_row_format_subclauses_list)
                 ddl_row_format_sub_segments ==
                     segmentize_ddl_by_clause(ddl_row_format_segment[1], subclauses_list_sorted)
                 ddl_row_format_type == determine_row_format_type(subclauses_list_sorted)
             IN  IF ddl_row_format_type.kind = "raise" THEN Raise(ddl_row_format_type.err)
                 ELSE IF ddl_row_format_type.val \in {ROW_FORMAT_SERDE, ROW_FORMAT_WITH_SERDEPROPERTIES}
                 THEN has_row_format_serde_changed(metadata, Some(ddl_row_format_sub_segments),
                                                   ddl_row_format_type.val)
                 ELSE check_row_format_delimited_properties(ddl_row_format_sub_segments, metadata)

(***************************************************************************)
(* Comparators: file format, location, table properties                    *)
(***************************************************************************)
\* The InputFormat each STORED AS keyword is compared with (the six elif branches).
CanonicalInputFormat ==
    [textfile |-> TEXTFILE_STORAGE_FORMAT, parquet |-> PARQUET_STORAGE_FORMAT,
     sequencefile |-> SEQUENCEFILE_STORAGE_FORMAT, rcfile |-> RCFILE_STORAGE_FORMAT,
     orc |-> ORC_STORAGE_FORMAT, avro |-> AVRO_STORAGE_FORMAT]

\* The branch for STORED AS INPUTFORMAT ... [OUTPUTFORMAT ...]
ExplicitFileFormatChanged(ddl_file_format, table_metadata_inputformat, table_metadata_outputformat) ==
    LET words == Split(ddl_file_format, " ")
        has_output == Find(ddl_file_format, "outputformat") >= 0
    IN  IF has_output /\ Len(words) # 4 THEN Raise("ValueError")
        ELSE IF ~has_output /\ Len(words) # 2 THEN Raise("ValueError")
        ELSE IF StripChars(words[2], {"'"}) # table_metadata_inputformat THEN Return(TRUE)
        ELSE IF ~has_output THEN Raise("UnboundLocalError")
        ELSE Return(StripChars(words[4], {"'"}) # table_metadata_outputformat)

has_file_format_changed(metadata, segments) ==
    LET ddl_stored_as_segment == SegmentStartingWith(segments, "stored as")
        table_metadata_inputformat == Lower(metadata.StorageDescriptor.InputFormat)
        table_metadata_outputformat == Lower(metadata.StorageDescriptor.OutputFormat)
    IN  IF ddl_stored_as_segment # None
        THEN LET ddl_file_format == Replace(ddl_stored_as_segment[1], "stored as ", "")
             IN  IF ddl_file_format \in DOMAIN CanonicalInputFormat
                 THEN Return(table_metadata_inputformat # Lower(CanonicalInputFormat[ddl_file_format]))
                 ELSE IF StartsWith(ddl_file_format, "inputformat")
                 THEN ExplicitFileFormatChanged(ddl_file_format, table_metadata_inputformat,
                                                table_metadata_outputformat)
                 ELSE Raise("DDL's STORED AS sub-clause does not match any of the expected values")
        ELSE Return(table_metadata_inputformat # Lower(TEXTFILE_STORAGE_FORMAT))

\* has_table_location_changed defaulting to "unchanged" when the DDL has no
\* LOCATION segment.
has_table_location_changed_defaulting(metadata, segments) ==
    LET ddl_location_segment == SegmentStartingWith(segments, "location")
        metadata_location == Lower(metadata.StorageDescriptor.Location)
    IN  IF ddl_location_segment # None
        THEN LET parts == SplitMax(ddl_location_segment[1], " ", 1)
             IN  IF Len(parts) # 2 THEN Raise("ValueError")
                 ELSE Return(metadata_location # StripChars(parts[2], {"'"}))
        ELSE Return(FALSE)

has_table_location_changed(metadata, segments) ==
    LET ddl_location_segment == SegmentStartingWith(segments, "location")
        metadata_location == Lower(metadata.StorageDescriptor.Location)
    IN  IF ddl_location_segment # None
        THEN LET parts == SplitMax(ddl_location_segment[1], " ", 1)
             IN  IF Len(parts) # 2 THEN Raise("ValueError")
                 ELSE Return(metadata_location # StripChars(parts[2], {"'"}))
        ELSE Raise("The mandatory LOCATION clause is missing in the DDL")

\* The filter of the metadata comprehension, applied to key.lower()
MetaPropertyCompared(lowered_key) ==
    \/ lowered_key \in {"classification", "has_encrypted_data", "orc.compress", "parquet.compress",
                        "write.compression", "skip.header.line.count", "storage.location.template"}
    \/ StartsWith(lowered_key, "projection.")

\* The filter of the DDL comprehension
DdlPropertyCompared(key) ==
    \/ key \in {"classification", "orc.compress", "write.compression", "skip.header.line.count"}
    \/ Lower(key) \in {"has_encrypted_data", "parquet.compress", "storage.location.template"}
    \/ StartsWith(key, "projection.")

have_tblproperties_changed(metadata, segments) ==
    LET ddl_tblproperties_segment == SegmentStartingWith(segments, "tblproperties")
        default_metadata_tblproperties == metadata.Parameters
        metadata_tblproperties ==
            LowerDict(RestrictDict(default_metadata_tblproperties,
                                   {key \in DOMAIN default_metadata_tblproperties :
                                       MetaPropertyCompared(Lower(key))}))
    IN  IF ddl_tblproperties_segment # None
        THEN LET parts == Split(ddl_tblproperties_segment[1], " (")
             IN  IF Len(parts) < 2 THEN Raise("IndexError")
                 ELSE LET text == Strip(StripChars(parts[2], {")"}))
                          loaded == JsonLoads("{" \o Strip(Replace(Replace(text, "=", ": "), "'", "\""))
                                                  \o "}")
                          ddl_tblproperties ==
                              RestrictDict(loaded.dict,
                                           {key \in DOMAIN loaded.dict : DdlPropertyCompared(key)})
                      IN  IF ~loaded.ok THEN Raise("JSONDecodeError")
                          ELSE IF Cardinality(DOMAIN ddl_tblproperties) = 0
                          THEN Return(Cardinality(DOMAIN metadata_tblproperties) # 0)
                          ELSE IF Cardinality(DOMAIN metadata_tblproperties) = 0 THEN Return(TRUE)
                          ELSE Return(DeepDiffNonEmpty(ddl_tblproperties, metadata_tblproperties))
        ELSE Return(Cardinality(DOMAIN metadata_tblproperties) # 0)

(***************************************************************************)
(* detect_table_changes: normalisation of the DDL text                     *)
(***************************************************************************)
RECURSIVE CollapseDdlSpaces(_)
\* while '  ' in normalized_ddl_text: ... .replace('  ', ' ').replace(' ,', ',')
CollapseDdlSpaces(s) ==
    IF Contains(s, "  ") THEN CollapseDdlSpaces(Replace(Replace(s, "  ", " "), " ,", ",")) ELSE s

\* A TLA+ string cannot hold the back tick: the model writes it as ^, a
\* character that has no other role in a DDL text.
BackTick == "^"

NormalizeDdlText(text) ==
    CollapseDdlSpaces(
        Lower(Replace(Replace(Replace(Replace(Replace(Replace(text,
            "\n", " "), "\r", ""), BackTick, ""), ";", ""), "\t", " "), " )", ")")))

(***************************************************************************)
(* Inputs: DDL scripts and catalog snapshots                               *)
(*                                                                         *)
(* A DDL script is written clause by clause.  Every way of writing a       *)
(* clause comes with meta, the catalog fragment a table created with that  *)
(* clause has, and wf, whether the clause is well-formed DDL.              *)
(***************************************************************************)
Column(name, type) == [Name |-> name, Type |-> type]
CommentedColumn(name, type, comment) == [Name |-> name, Type |-> type, Comment |-> comment]

LazySimpleSerDe == "org.apache.hadoop.hive.serde2.lazy.LazySimpleSerDe"
OpenCSVSerde == "org.apache.hadoop.hive.serde2.OpenCSVSerde"
ParquetHiveSerDe == "org.apache.hadoop.hive.ql.io.parquet.serde.ParquetHiveSerDe"
IonHiveSerDe == "com.amazon.ionhiveserde.IonHiveSerDe"
TextOutputFormat == "org.apache.hadoop.hive.ql.io.HiveIgnoreKeyTextOutputFormat"
ParquetOutputFormat == "org.apache.hadoop.hive.ql.io.parquet.MapredParquetOutputFormat"
OrcOutputFormat == "org.apache.hadoop.hive.ql.io.orc.OrcOutputFormat"

Serde(lib, parameters) == [SerializationLibrary |-> lib, Parameters |-> parameters]
DefaultSerdeParameters == "serialization.format" :> "1"
Formats(input, output) == [InputFormat |-> input, OutputFormat |-> output]
Buckets(columns, n) == [BucketColumns |-> columns, NumberOfBuckets |-> n]

ClauseNames ==
    {"columns", "comment", "partitioning", "clustering", "row_format", "file_format", "location",
     "tblproperties"}

IdName == << Column("id", "int"), Column("name", "string") >>

DdlOptions ==
    [columns |->
        {[ddl |-> "id int, name string", meta |-> IdName, wf |-> TRUE],
         [ddl |-> "id int,name string", meta |-> IdName, wf |-> TRUE],
         [ddl |-> "ID INT,\n  Name STRING", meta |-> IdName, wf |-> TRUE],
         [ddl |-> "id int, amt decimal(10,2)",
          meta |-> << Column("id", "int"), Column("amt", "decimal(10,2)") >>, wf |-> TRUE],
         [ddl |-> "id int COMMENT 'key', name string",
          meta |-> << CommentedColumn("id", "int", "key"), Column("name", "string") >>, wf |-> TRUE],
         [ddl |-> "id int, amt decimal(10,2", meta |-> IdName, wf |-> FALSE]},
     comment |->
        {[ddl |-> "", meta |-> None, wf |-> TRUE],
         [ddl |-> " COMMENT 'Sales data'", meta |-> Some("Sales data"), wf |-> TRUE],
         [ddl |-> " COMMENT 'it\\'s'", meta |-> Some("it's"), wf |-> TRUE]},
     partitioning |->
        {[ddl |-> "", meta |-> << >>, wf |-> TRUE],
         [ddl |-> "\nPARTITIONED BY (dt string)", meta |-> << Column("dt", "string") >>, wf |-> TRUE],
         [ddl |-> "\nPARTITIONED BY (dt string COMMENT 'day')",
          meta |-> << CommentedColumn("dt", "string", "day") >>, wf |-> TRUE]},
     clustering |->
        {[ddl |-> "", meta |-> Buckets(<< >>, 0), wf |-> TRUE],
         [ddl |-> "\nCLUSTERED BY (id) INTO 4 BUCKETS", meta |-> Buckets(<< "id" >>, 4), wf |-> TRUE]},
     row_format |->
        {[ddl |-> "", meta |-> Serde(LazySimpleSerDe, DefaultSerdeParameters), wf |-> TRUE],
         [ddl |-> "\nROW FORMAT SERDE '" \o OpenCSVSerde \o "'",
          meta |-> Serde(OpenCSVSerde, DefaultSerdeParameters), wf |-> TRUE],
         [ddl |-> "\nROW FORMAT SERDE '" \o OpenCSVSerde \o "'"
                      \o " WITH SERDEPROPERTIES ('separatorChar'=',')",
          meta |-> Serde(OpenCSVSerde, ("separatorChar" :> ",") @@ DefaultSerdeParameters),
          wf |-> TRUE],
         [ddl |-> "\nROW FORMAT DELIMITED",
          meta |-> Serde(LazySimpleSerDe, DefaultSerdeParameters), wf |-> TRUE],
         [ddl |-> "\nROW FORMAT DELIMITED FIELDS TERMINATED BY ','",
          meta |-> Serde(LazySimpleSerDe, ("field.delim" :> ",") @@ ("serialization.format" :> ",")),
          wf |-> TRUE],
         [ddl |-> "\nROW FORMAT", meta |-> Serde(LazySimpleSerDe, DefaultSerdeParameters),
          wf |-> FALSE],
         [ddl |-> "\nROW FORMAT JSON", meta |-> Serde(LazySimpleSerDe, DefaultSerdeParameters),
          wf |-> FALSE]},
     file_format |->
        {[ddl |-> "", meta |-> Formats(TEXTFILE_STORAGE_FORMAT, TextOutputFormat), wf |-> TRUE],
         [ddl |-> "\nSTORED AS PARQUET",
          meta |-> Formats(PARQUET_STORAGE_FORMAT, ParquetOutputFormat), wf |-> TRUE],
         [ddl |-> "\nSTORED AS TEXTFILE",
          meta |-> Formats(TEXTFILE_STORAGE_FORMAT, TextOutputFormat), wf |-> TRUE],
         [ddl |-> "\nSTORED AS INPUTFORMAT '" \o TEXTFILE_STORAGE_FORMAT \o "' OUTPUTFORMAT '"
                      \o TextOutputFormat \o "'",
          meta |-> Formats(TEXTFILE_STORAGE_FORMAT, TextOutputFormat), wf |-> TRUE],
         [ddl |-> "\nSTORED AS INPUTFORMAT '" \o TEXTFILE_STORAGE_FORMAT \o "'",
          meta |-> Formats(TEXTFILE_STORAGE_FORMAT, TextOutputFormat), wf |-> FALSE],
         [ddl |-> "\nSTORED AS CSV",
          meta |-> Formats(TEXTFILE_STORAGE_FORMAT, TextOutputFormat), wf |-> FALSE]},
     location |->
        {[ddl |-> "\nLOCATION 's3://b/t'", meta |-> "s3://b/t", wf |-> TRUE],
         [ddl |-> "\nLOCATION 'hdfs://n/t'", meta |-> "hdfs://n/t", wf |-> FALSE],
         [ddl |-> "", meta |-> "s3://b/t", wf |-> FALSE]},
     tblproperties |->
        {[ddl |-> "", meta |-> EmptyDict, wf |-> TRUE],
         [ddl |-> "\nTBLPROPERTIES ('parquet.compress'='SNAPPY')",
          meta |-> "parquet.compress" :> "SNAPPY", wf |-> TRUE],
         [ddl |-> "\nTBLPROPERTIES ('storage.location.template'='s3://b/t/dt=${dt}')",
          meta |-> "storage.location.template" :> "s3://b/t/dt=${dt}", wf |-> TRUE],
         [ddl |-> "\nTBLPROPERTIES ('author'='bob')", meta |-> "author" :> "bob", wf |-> TRUE]}]

\* Catalog fragments that none of the DDL clauses above produces.
OtherMetaFragments ==
    [columns |-> {<< Column("id", "int") >>},
     comment |-> {Some("Orders")},
     partitioning |-> {<< Column("year", "int") >>},
     clustering |-> {Buckets(<< "id" >>, 8), Buckets(<< "id", "name", "amt" >>, 4)},
     row_format |-> {Serde(ParquetHiveSerDe, DefaultSerdeParameters),
                     Serde(IonHiveSerDe, EmptyDict),
                     Serde(OpenCSVSerde, ("separatorChar" :> ";") @@ DefaultSerdeParameters),
                     Serde(LazySimpleSerDe, ("field.delim" :> "|") @@ ("serialization.format" :> "|"))},
     file_format |-> {Formats(ORC_STORAGE_FORMAT, OrcOutputFormat),
                      Formats(PARQUET_STORAGE_FORMAT, TextOutputFormat)},
     location |-> {"s3://b/u"},
     tblproperties |-> {"parquet.compress" :> "GZIP", "author" :> "alice",
                        ("parquet.compress" :> "SNAPPY") @@ ("numfiles" :> "12")}]

MetaFragments == [c \in ClauseNames |-> {o.meta : o \in DdlOptions[c]} \cup OtherMetaFragments[c]]

\* The option of clause c written as text.
Option(c, text) == CHOOSE o \in DdlOptions[c] : o.ddl = text

\* Two complete scripts: a partitioned Parquet table, and a table using every clause.
BaseScripts ==
    {[columns |-> Option("columns", "id int, name string"),
      comment |-> Option("comment", ""),
      partitioning |-> Option("partitioning", "\nPARTITIONED BY (dt string)"),
      clustering |-> Option("clustering", ""),
      row_format |-> Option("row_format", ""),
      file_format |-> Option("file_format", "\nSTORED AS PARQUET"),
      location |-> Option("location", "\nLOCATION 's3://b/t'"),
      tblproperties |-> Option("tblproperties", "")],
     [columns |-> Option("columns", "id int COMMENT 'key', name string"),
      comment |-> Option("comment", " COMMENT 'Sales data'"),
      partitioning |-> Option("partitioning", "\nPARTITIONED BY (dt string COMMENT 'day')"),
      clustering |-> Option("clustering", "\nCLUSTERED BY (id) INTO 4 BUCKETS"),
      row_format |-> Option("row_format", "\nROW FORMAT SERDE '" \o OpenCSVSerde \o "'"
                                              \o " WITH SERDEPROPERTIES ('separatorChar'=',')"),
      file_format |-> Option("file_format", "\nSTORED AS TEXTFILE"),
      location |-> Option("location", "\nLOCATION 's3://b/t'"),
      tblproperties |-> Option("tblproperties", "\nTBLPROPERTIES ('parquet.compress'='SNAPPY')")]}

\* The scripts: a base script with at most one clause written differently.
Scripts ==
    BaseScripts \cup
    UNION {{[t[1] EXCEPT ![t[2]] = o] : o \in DdlOptions[t[2]]} : t \in BaseScripts \X ClauseNames}

\* The text of a script.
ScriptText(script) ==
    "CREATE EXTERNAL TABLE IF NOT EXISTS ^db^.^t^ (\n  " \o script.columns.ddl \o " )"
        \o script.comment.ddl \o script.partitioning.ddl \o script.clustering.ddl
        \o script.row_format.ddl \o script.file_format.ddl \o script.location.ddl
        \o script.tblproperties.ddl \o ";\n"

\* The fragments of the catalog snapshot of a table created from a script.
ScriptFragments(script) == [c \in ClauseNames |-> script[c].meta]

\* The get_tables element assembled from one fragment per clause.
Metadata(f) ==
    [Name |-> "t",
     TableType |-> "EXTERNAL_TABLE",
     Parameters |-> (IF f.comment = None THEN EmptyDict ELSE "comment" :> f.comment[1])
                        @@ f.tblproperties @@ ("EXTERNAL" :> "TRUE"),
     PartitionKeys |-> f.partitioning,
     StorageDescriptor |->
        [Columns |-> f.columns,
         BucketColumns |-> f.clustering.BucketColumns,
         NumberOfBuckets |-> f.clustering.NumberOfBuckets,
         SerdeInfo |-> f.row_format,
         InputFormat |-> f.file_format.InputFormat,
         OutputFormat |-> f.file_format.OutputFormat,
         Location |-> f.location]]

\* The fragments a snapshot was assembled from.
Fragments(metadata) ==
    [columns |-> metadata.StorageDescriptor.Columns,
     comment |-> IF "comment" \in DOMAIN metadata.Parameters
                 THEN Some(metadata.Parameters["comment"]) ELSE None,
     partitioning |-> metadata.PartitionKeys,
     clustering |-> Buckets(metadata.StorageDescriptor.BucketColumns,
                            metadata.StorageDescriptor.NumberOfBuckets),
     row_format |-> metadata.StorageDescriptor.SerdeInfo,
     file_format |-> Formats(metadata.StorageDescriptor.InputFormat,
                             metadata.StorageDescriptor.OutputFormat),
     location |-> metadata.StorageDescriptor.Location,
     tblproperties |-> RestrictDict(metadata.Parameters,
                                    (DOMAIN metadata.Parameters) \ {"comment", "EXTERNAL"})]

\* The snapshots: the catalog's view of a base script with at most one fragment replaced.
Snapshots(base) ==
    {Metadata(ScriptFragments(base))} \cup
    UNION {{Metadata([ScriptFragments(base) EXCEPT ![c] = m]) : m \in MetaFragments[c]} :
              c \in ClauseNames}

(***************************************************************************)
(* The detector as a state machine                                         *)
(***************************************************************************)
\* Calls of has_table_structure_changed made on the same inputs.
MaxInvocations == 2

Pending == [kind |-> "pending", val |-> FALSE, err |-> ""]

Init ==
    /\ \E base \in BaseScripts :
          /\ \E script \in {b \in Scripts : \E c \in ClauseNames : [b EXCEPT ![c] = base[c]] = base} :
                ddl_text = ScriptText(script)
          /\ table_metadata \in Snapshots(base)
    /\ ddl_clauses_list = InitialDdlClausesList
    /\ ddl_row_format_subclauses_list = InitialDdlRowFormatSubclausesList
    /\ pc = "normalize"
    /\ normalized_ddl_text = ""
    /\ ddl_columns_segment = ""
    /\ ddl_other_segments = ""
    /\ ddl_clause_list_sorted = << >>
    /\ ddl_segments = << >>
    /\ calls = << >>
    /\ outcome = Pending
    /\ history = << >>
    /\ split_text = ""
    /\ split_result = SplitRaise("")
    /\ row_format_subclauses_list_sorted = << >>
    /\ row_format_sub_segments = << >>
    /\ tables_metadata_list = << table_metadata >>
    /\ athena_tables = << [table_name |-> "t", ddl_text |-> ddl_text] >>
    /\ table_index = 1
    /\ executed_queries = << >>

\* detect_table_changes up to the call of has_table_structure_changed
Normalize ==
    /\ pc = "normalize"
    /\ normalized_ddl_text' = NormalizeDdlText(ddl_text)
    /\ pc' = "split"
    /\ UNCHANGED << row_format_vars, caller_vars, ddl_text, table_metadata, ddl_clauses_list, ddl_row_format_subclauses_list,
                    ddl_columns_segment, ddl_other_segments, ddl_clause_list_sorted, ddl_segments,
                    calls, outcome, history, split_text, split_result >>

\* ddl_columns_segment, ddl_other_segments = split_ddl_columns_segment(ddl_text), then strip()
SplitColumns ==
    /\ pc = "split"
    /\ LET r == split_ddl_columns_segment(normalized_ddl_text)
       IN  IF r.kind = "raise"
           THEN /\ outcome' = Raise(r.err)
                /\ pc' = "done"
                /\ UNCHANGED << ddl_columns_segment, ddl_other_segments >>
           ELSE /\ ddl_columns_segment' = r.columns
                /\ ddl_other_segments' = Strip(r.remainder)
                /\ pc' = "index"
                /\ UNCHANGED outcome
    /\ UNCHANGED << row_format_vars, caller_vars, ddl_text, table_metadata, ddl_clauses_list, ddl_row_format_subclauses_list,
                    normalized_ddl_text, ddl_clause_list_sorted, ddl_segments, calls, history,
                    split_text, split_result >>

\* IndexClauses with the catalog itself stripped and sorted in place
\* (clauses_list.sort(...) instead of sorted(...) on a new list).
IndexClausesInPlace ==
    /\ pc = "index"
    /\ ddl_clause_list_sorted' = index_ddl_clauses(ddl_other_segments, ddl_clauses_list)
    /\ ddl_clauses_list' = [i \in 1..Len(ddl_clauses_list) |->
                               index_ddl_clauses(ddl_other_segments, ddl_clauses_list)[i].Clause]
    /\ pc' = "columns"
    /\ UNCHANGED << row_format_vars, caller_vars, ddl_text, table_metadata, ddl_row_format_subclauses_list,
                    normalized_ddl_text, ddl_columns_segment, ddl_other_segments, ddl_segments,
                    calls, outcome, history, split_text, split_result >>

\* ddl_clause_list_sorted = index_ddl_clauses(ddl_other_segments, ddl_clauses_list)
IndexClauses ==
    /\ pc = "index"
    /\ ddl_clause_list_sorted' = index_ddl_clauses(ddl_other_segments, ddl_clauses_list)
    /\ pc' = "columns"
    /\ UNCHANGED << row_format_vars, caller_vars, ddl_text, table_metadata, ddl_clauses_list, ddl_row_format_subclauses_list,
                    normalized_ddl_text, ddl_columns_segment, ddl_other_segments, ddl_segments,
                    calls, outcome, history, split_text, split_result >>

\* ddl_segments = segmentize_ddl_by_clause(ddl_other_segments, ddl_clause_list_sorted)
Segmentize ==
    /\ pc = "segmentize"
    /\ ddl_segments' = segmentize_ddl_by_clause(ddl_other_segments, ddl_clause_list_sorted)
    /\ pc' = "comment"
    /\ UNCHANGED << row_format_vars, caller_vars, ddl_text, table_metadata, ddl_clauses_list, ddl_row_format_subclauses_list,
                    normalized_ddl_text, ddl_columns_segment, ddl_other_segments,
                    ddl_clause_list_sorted, calls, outcome, history, split_text, split_result >>

\* Compare with the early "return True" left out: a True result is only
\* remembered and the remaining comparators still run.
CompareWithoutReturn(name, result, next) ==
    /\ calls' = Append(calls, [name |-> name, result |-> result])
    /\ IF result.kind = "raise" THEN outcome' = result /\ pc' = "done"
       ELSE IF next = "return"
       THEN outcome' = Return(result.val \/ \E i \in 1..Len(calls) : calls[i].result.val) /\ pc' = "done"
       ELSE outcome' = outcome /\ pc' = next
    /\ UNCHANGED << row_format_vars, caller_vars, ddl_text, table_metadata, ddl_clauses_list, ddl_row_format_subclauses_list,
                    normalized_ddl_text, ddl_columns_segment, ddl_other_segments,
                    ddl_clause_list_sorted, ddl_segments, history, split_text, split_result >>

\* One "if comparator(...) is True: return True" of has_table_structure_changed:
\* the comparator is recorded as invoked; an exception leaves the function, a
\* True result returns True, anything else goes on to the statement at next
\* ("return" standing for the final return False).
Compare(name, result, next) ==
    /\ calls' = Append(calls, [name |-> name, result |-> result])
    /\ IF result.kind = "raise" THEN outcome' = result /\ pc' = "done"
       ELSE IF result.val THEN outcome' = Return(TRUE) /\ pc' = "done"
       ELSE IF next = "return" THEN outcome' = Return(FALSE) /\ pc' = "done"
       ELSE outcome' = outcome /\ pc' = next
    /\ UNCHANGED << row_format_vars, caller_vars, ddl_text, table_metadata, ddl_clauses_list, ddl_row_format_subclauses_list,
                    normalized_ddl_text, ddl_columns_segment, ddl_other_segments,
                    ddl_clause_list_sorted, ddl_segments, history, split_text, split_result >>

HaveColumnsChanged ==
    pc = "columns"
        /\ Compare("columns", have_columns_changed(table_metadata, ddl_columns_segment), "segmentize")

HasTableCommentChanged ==
    pc = "comment"
        /\ Compare("comment", has_table_comment_changed(table_metadata, ddl_segments), "partitioning")

HasPartitioningChanged ==
    pc = "partitioning"
        /\ Compare("partitioning", has_partitioning_changed(table_metadata, ddl_segments), "clustering")

HasClusteringChanged ==
    pc = "clustering"
        /\ Compare("clustering", has_clustering_changed(table_metadata, ddl_segments), "row_format")

HasRowFormatChanged ==
    pc = "row_format"
        /\ Compare("row_format", has_row_format_changed(table_metadata, ddl_segments), "file_format")

HasFileFormatChanged ==
    pc = "file_format"
        /\ Compare("file_format", has_file_format_changed(table_metadata, ddl_segments), "location")

HasTableLocationChanged ==
    pc = "location"
        /\ Compare("location", has_table_location_changed(table_metadata, ddl_segments), "tblproperties")

HaveTblpropertiesChanged ==
    pc = "tblproperties"
        /\ Compare("tblproperties", have_tblproperties_changed(table_metadata, ddl_segments), "return")

\* A later call of has_table_structure_changed with the same arguments: its
\* locals are fresh, the module-level lists are whatever the earlier call left.
Reinvoke ==
    /\ pc = "done"
    /\ Len(history) + 1 < MaxInvocations
    /\ history' = Append(history, outcome)
    /\ pc' = "split"
    /\ ddl_columns_segment' = ""
    /\ ddl_other_segments' = ""
    /\ ddl_clause_list_sorted' = << >>
    /\ ddl_segments' = << >>
    /\ calls' = << >>
    /\ outcome' = Pending
    /\ UNCHANGED << row_format_vars, caller_vars, ddl_text, table_metadata, ddl_clauses_list, ddl_row_format_subclauses_list,
                    normalized_ddl_text, split_text, split_result >>

Next ==
    \/ Normalize
    \/ SplitColumns
    \/ IndexClauses
    \/ HaveColumnsChanged
    \/ Segmentize
    \/ HasTableCommentChanged
    \/ HasPartitioningChanged
    \/ HasClusteringChanged
    \/ HasRowFormatChanged
    \/ HasFileFormatChanged
    \/ HasTableLocationChanged
    \/ HaveTblpropertiesChanged
    \/ Reinvoke

Spec == Init /\ [][Next]_vars

(***************************************************************************)
(* split_ddl_columns_segment on its own, over arbitrary short texts        *)
(***************************************************************************)
\* Longest text of parentheses, letters and blanks handed to the extractor.
MaxTextLen == 5

SplitAlphabet == {"(", ")", "a", " "}

RECURSIVE TextsUpTo(_)
TextsUpTo(n) ==
    IF n = 0 THEN {""}
    ELSE LET shorter == TextsUpTo(n - 1)
         IN  shorter \cup {t \o c : t \in shorter, c \in SplitAlphabet}

SplitTexts ==
    TextsUpTo(MaxTextLen) \cup
    {"create external table t (id int, amt decimal(10,2)) stored as orc",
     "create external table t (id int, amt decimal(10,2)) partitioned by (dt string",
     "create external table t (id int) partitioned by (dt string))"}

InitSplit ==
    /\ split_text \in SplitTexts
    /\ split_result = SplitRaise("")
    /\ pc = "split_call"
    /\ ddl_text = ""
    /\ table_metadata = << >>
    /\ ddl_clauses_list = InitialDdlClausesList
    /\ ddl_row_format_subclauses_list = InitialDdlRowFormatSubclausesList
    /\ normalized_ddl_text = ""
    /\ ddl_columns_segment = ""
    /\ ddl_other_segments = ""
    /\ ddl_clause_list_sorted = << >>
    /\ ddl_segments = << >>
    /\ calls = << >>
    /\ outcome = Pending
    /\ history = << >>
    /\ row_format_subclauses_list_sorted = << >>
    /\ row_format_sub_segments = << >>
    /\ tables_metadata_list = << >>
    /\ athena_tables = << >>
    /\ table_index = 0
    /\ executed_queries = << >>

SplitCall ==
    /\ pc = "split_call"
    /\ split_result' = split_ddl_columns_segment(split_text)
    /\ pc' = "split_done"
    /\ UNCHANGED << row_format_vars, caller_vars, ddl_text, table_metadata, ddl_clauses_list, ddl_row_format_subclauses_list,
                    normalized_ddl_text, ddl_columns_segment, ddl_other_segments,
                    ddl_clause_list_sorted, ddl_segments, calls, outcome, history, split_text >>

NextSplit == SplitCall

SpecSplit == InitSplit /\ [][NextSplit]_vars

(***************************************************************************)
(* The comparators one by one                                              *)
(*                                                                         *)
(* has_table_structure_changed stops at the first comparator that reports  *)
(* a change.  To examine a comparator on its own, the segments of a DDL    *)
(* are prepared as has_table_structure_changed prepares them and every     *)
(* comparator is then applied to them, whatever the others returned.       *)
(***************************************************************************)
Written(ddl, meta) == [ddl |-> ddl, meta |-> meta, wf |-> TRUE]

\* A text-file table with two columns and none of the optional clauses.
PlainScript ==
    [columns |-> Option("columns", "id int, name string"),
     comment |-> Option("comment", ""),
     partitioning |-> Option("partitioning", ""),
     clustering |-> Option("clustering", ""),
     row_format |-> Option("row_format", ""),
     file_format |-> Option("file_format", "\nSTORED AS TEXTFILE"),
     location |-> Option("location", "\nLOCATION 's3://b/t'"),
     tblproperties |-> Option("tblproperties", "")]

PlainFragments == ScriptFragments(PlainScript)

\* A DDL text and a catalog snapshot handed to the comparators.
ClauseInput(script, fragments) == [ddl |-> ScriptText(script), metadata |-> Metadata(fragments)]

RECURSIVE PropertyList(_)
\* 'key'='value', 'key'='value', ... for a sequence of << key, value >> pairs
PropertyList(pairs) ==
    IF pairs = << >> THEN ""
    ELSE "'" \o pairs[1][1] \o "'='" \o pairs[1][2] \o "'"
             \o (IF Len(pairs) > 1 THEN ", " ELSE "") \o PropertyList(Tail(pairs))

\* The TBLPROPERTIES clause with the given properties, no clause for none.
TblpropertiesClause(pairs) ==
    IF pairs = << >> THEN "" ELSE "\nTBLPROPERTIES (" \o PropertyList(pairs) \o ")"

\* Properties of the allow-list written in a DDL, and properties outside of it.
DdlListedProperties ==
    {<< >>,
     << << "parquet.compress", "snappy" >> >>,
     << << "parquet.compress", "SNAPPY" >> >>,
     << << "classification", "csv" >>, << "skip.header.line.count", "1" >> >>,
     << << "skip.header.line.count", "1" >>, << "classification", "csv" >> >>,
     << << "projection.enabled", "true" >>,
        << "storage.location.template", "s3://b/t/day=${day}" >> >>}

DdlUnlistedProperties ==
    {<< >>,
     << << "author", "bob" >> >>,
     << << "note", "a=b" >> >>,
     << << "note", "daily (eu)" >> >>}

\* Catalog parameters of the allow-list, and parameters outside of it.
MetaListedProperties ==
    {EmptyDict,
     "parquet.compress" :> "snappy",
     "parquet.compress" :> "gzip",
     "Parquet.Compress" :> "SNAPPY",
     ("classification" :> "csv") @@ ("skip.header.line.count" :> "1"),
     ("projection.enabled" :> "true")
         @@ ("storage.location.template" :> "s3://b/t/day=${day}")}

MetaUnlistedProperties ==
    {EmptyDict,
     ("numfiles" :> "12") @@ ("column_stats_accurate" :> "false"),
     "author" :> "alice"}

PropertyInput(ddl_listed, ddl_unlisted, meta_listed, meta_unlisted) ==
    ClauseInput([PlainScript EXCEPT !.tblproperties =
                    Written(TblpropertiesClause(ddl_listed \o ddl_unlisted), meta_listed)],
                [PlainFragments EXCEPT !.tblproperties = meta_listed @@ meta_unlisted])

PropertyInputs ==
    {PropertyInput(dl, du, ml, mu) :
        dl \in DdlListedProperties, du \in DdlUnlistedProperties,
        ml \in MetaListedProperties, mu \in MetaUnlistedProperties}

\* The CLUSTERED BY clause with the given column list and bucket count.
ClusteredByClause(list, n) ==
    "\nCLUSTERED BY (" \o list \o ") INTO " \o ToString(n) \o " BUCKETS"

\* Ways of writing the clustering in a DDL (none for an empty column list).
DdlClusterings ==
    {[list |-> "", n |-> 0],
     [list |-> "id", n |-> 4],
     [list |-> "id, name", n |-> 4],
     [list |-> "id, name", n |-> 8],
     [list |-> "name, id", n |-> 4],
     [list |-> "ID, Name", n |-> 4],
     [list |-> "id,name", n |-> 4]}

MetaClusterings ==
    {Buckets(<< >>, 0),
     Buckets(<< "id" >>, 4),
     Buckets(<< "id", "name" >>, 4),
     Buckets(<< "id", "name" >>, 8),
     Buckets(<< "name", "id" >>, 4),
     Buckets(<< "ID", "Name" >>, 4),
     Buckets(<< "id", "name", "amt" >>, 4)}

ClusteringInput(ddl_clustering, meta_clustering) ==
    ClauseInput([PlainScript EXCEPT !.clustering =
                    Written(IF ddl_clustering.list = "" THEN ""
                            ELSE ClusteredByClause(ddl_clustering.list, ddl_clustering.n),
                            meta_clustering)],
                [PlainFragments EXCEPT !.clustering = meta_clustering])

ClusteringInputs ==
    {ClusteringInput(d, m) : d \in DdlClusterings, m \in MetaClusterings}

\* The table comment and the partition keys, each written in every way the
\* options know, against a catalog with no comment or one of two comments.
CommentInputs ==
    {ClauseInput([PlainScript EXCEPT !.comment = c, !.partitioning = p],
                 [PlainFragments EXCEPT !.comment = m, !.partitioning = p.meta]) :
        c \in DdlOptions.comment, p \in DdlOptions.partitioning,
        m \in {None, Some("Sales data"), Some("day")}}

\* Table comments as written between the quotes of a DDL (None: no clause) and
\* as the catalog holds them (None: no comment parameter).
DdlComments == {None, Some("Sales data"), Some("it\\'s"), Some("Replaces \\'orders\\'")}

MetaComments == {None, Some("Sales data"), Some("Sales Data"), Some("it's"), Some("Replaces 'orders'")}

\* Partition columns as written between the parentheses of a DDL (None: no
\* clause) and the partition keys of the catalog.
DdlPartitionings ==
    {None, Some("dt string"), Some("dt string, hr int"), Some("hr int, dt string"),
     Some("Dt STRING COMMENT 'Day'")}

MetaPartitionings ==
    {<< >>,
     << Column("dt", "string") >>,
     << Column("dt", "string"), Column("hr", "int") >>,
     << CommentedColumn("dt", "string", "Day") >>}

PresenceInput(ddl_comment, meta_comment, ddl_partitioning, meta_partitioning) ==
    ClauseInput([PlainScript EXCEPT
                    !.comment = Written(IF ddl_comment = None THEN ""
                                        ELSE " COMMENT '" \o ddl_comment[1] \o "'", meta_comment),
                    !.partitioning = Written(IF ddl_partitioning = None THEN ""
                                             ELSE "\nPARTITIONED BY (" \o ddl_partitioning[1] \o ")",
                                             meta_partitioning)],
                [PlainFragments EXCEPT !.comment = meta_comment,
                                       !.partitioning = meta_partitioning])

\* Every comment pair without partitioning, every partitioning pair without comment.
PresenceInputs ==
    {PresenceInput(c, m, None, << >>) : c \in DdlComments, m \in MetaComments}
        \cup {PresenceInput(None, None, p, k) : p \in DdlPartitionings, k \in MetaPartitionings}

\* Table comments that hold the words of a clause marker, in the DDL and in
\* the catalog of a table created from it.
LiteralInputs ==
    {PresenceInput(Some(c), Some(c), None, << >>) :
        c \in {"Files stored as text", "Rows partitioned by day"}}

\* The two complete scripts against the catalog of a table created from them.
CompleteInputs == {ClauseInput(script, ScriptFragments(script)) : script \in BaseScripts}

DelimitedJSONSerDe == "org.apache.hadoop.hive.serde2.DelimitedJSONSerDe"

\* Ways of writing the ROW FORMAT clause besides those of DdlOptions.
OtherRowFormats ==
    {"\nROW FORMAT SERDE '" \o DelimitedJSONSerDe \o "'",
     "\nROW FORMAT SERDE '" \o DelimitedJSONSerDe \o "' WITH SERDEPROPERTIES ('field.delim'=',')",
     "\nROW FORMAT SERDE '" \o OpenCSVSerde \o "' WITH SERDEPROPERTIES ('note'='tab delimited')",
     "\nROW FORMAT DELIMITED FIELDS TERMINATED BY ',' ESCAPED BY '\\\\'",
     "\nROW FORMAT DELIMITED NULL DEFINED AS ''",
     "\nROW FORMAT DELIMITED FIELDS TERMINATED BY ',' LINES TERMINATED BY '\\n'"}

DdlRowFormats == {o.ddl : o \in DdlOptions.row_format} \cup OtherRowFormats

\* The SerdeInfo elements of the catalog: the library and its parameters.
MetaSerdes ==
    MetaFragments.row_format \cup
    {Serde(LazySimpleSerDe, EmptyDict),
     Serde(LazySimpleSerDe, "serialization.format" :> "2"),
     Serde(LazySimpleSerDe, ("escape.delim" :> "\\") @@ ("field.delim" :> ",")
                                @@ ("serialization.format" :> ",")),
     Serde(IonHiveSerDe, DefaultSerdeParameters),
     Serde(DelimitedJSONSerDe, DefaultSerdeParameters),
     Serde(DelimitedJSONSerDe, EmptyDict),
     Serde(LazySimpleSerDe, ("field.delim" :> ",") @@ ("line.delim" :> "\n")
                                @@ ("serialization.format" :> ",")),
     Serde(LazySimpleSerDe, ("field.delim" :> "\t") @@ ("line.delim" :> "\n")
                                @@ ("serialization.format" :> "\t")),
     Serde(IonHiveSerDe, ("field.delim" :> ",") @@ ("serialization.format" :> ",")),
     Serde(DelimitedJSONSerDe, ("field.delim" :> ",") @@ DefaultSerdeParameters),
     Serde(OpenCSVSerde, ("note" :> "tab delimited") @@ DefaultSerdeParameters)}

RowFormatInput(ddl_row_format, meta_serde) ==
    ClauseInput([PlainScript EXCEPT !.row_format = Written(ddl_row_format, meta_serde)],
                [PlainFragments EXCEPT !.row_format = meta_serde])

RowFormatInputs == {RowFormatInput(d, m) : d \in DdlRowFormats, m \in MetaSerdes}

\* Property lists written after WITH SERDEPROPERTIES, as << key, value >> pairs.
DdlSerdeProperties ==
    {<< << "separatorChar", "," >> >>,
     << << "separatorChar", "|" >> >>,
     << << "separatorChar", "," >>, << "quoteChar", "#" >> >>,
     << << "quoteChar", "#" >>, << "separatorChar", "," >> >>,
     << << "separatorChar", "," >>, << "quoteChar", "\"" >> >>,
     << << "separatorChar", "," >>, << "serialization.format", "1" >> >>,
     << << "separatorChar", "," >>, << "serialization.format", "2" >> >>}

\* The serde parameters the catalog holds for such a table.
MetaSerdeParameters ==
    {EmptyDict,
     "separatorChar" :> ",",
     ("separatorChar" :> ",") @@ DefaultSerdeParameters,
     ("separatorChar" :> "|") @@ DefaultSerdeParameters,
     ("separatorChar" :> ",") @@ ("serialization.format" :> "2"),
     ("separatorChar" :> ",") @@ ("quoteChar" :> "#") @@ DefaultSerdeParameters,
     ("separatorChar" :> ",") @@ ("quoteChar" :> "\"") @@ DefaultSerdeParameters}

\* ROW FORMAT SERDE with the library of the catalog and the given properties.
SerdePropertyInput(ddl_properties, meta_parameters) ==
    RowFormatInput("\nROW FORMAT SERDE '" \o OpenCSVSerde \o "' WITH SERDEPROPERTIES ("
                       \o PropertyList(ddl_properties) \o ")",
                   Serde(OpenCSVSerde, meta_parameters))

SerdePropertyInputs ==
    {SerdePropertyInput(d, m) : d \in DdlSerdeProperties, m \in MetaSerdeParameters}

AvroOutputFormat == "org.apache.hadoop.hive.ql.io.avro.AvroContainerOutputFormat"
RCFileOutputFormat == "org.apache.hadoop.hive.ql.io.RCFileOutputFormat"
SequenceFileOutputFormat == "org.apache.hadoop.hive.ql.io.HiveSequenceFileOutputFormat"

\* The OutputFormat a table created with each STORED AS keyword has.
CanonicalOutputFormat ==
    [textfile |-> TextOutputFormat, parquet |-> ParquetOutputFormat,
     sequencefile |-> SequenceFileOutputFormat, rcfile |-> RCFileOutputFormat,
     orc |-> OrcOutputFormat, avro |-> AvroOutputFormat]

\* Ways of writing the STORED AS clause: the options, every keyword, and an
\* explicit pair naming the Parquet classes.
DdlFileFormats ==
    {o.ddl : o \in DdlOptions.file_format}
        \cup {"\nSTORED AS SEQUENCEFILE", "\nSTORED AS RCFILE", "\nSTORED AS ORC", "\nSTORED AS AVRO",
              "\nSTORED AS INPUTFORMAT '" \o PARQUET_STORAGE_FORMAT \o "' OUTPUTFORMAT '"
                  \o ParquetOutputFormat \o "'"}

\* The format identifiers of the catalog: the pair of every keyword, and
\* pairs whose OutputFormat belongs to another format.
MetaFileFormats ==
    {Formats(CanonicalInputFormat[k], CanonicalOutputFormat[k]) : k \in DOMAIN CanonicalInputFormat}
        \cup {Formats(PARQUET_STORAGE_FORMAT, TextOutputFormat),
              Formats(TEXTFILE_STORAGE_FORMAT, ParquetOutputFormat),
              Formats(ORC_STORAGE_FORMAT, TextOutputFormat)}

FileFormatInput(ddl_file_format, meta_formats) ==
    ClauseInput([PlainScript EXCEPT !.file_format = Written(ddl_file_format, meta_formats)],
                [PlainFragments EXCEPT !.file_format = meta_formats])

FileFormatInputs == {FileFormatInput(d, m) : d \in DdlFileFormats, m \in MetaFileFormats}

ClauseInputs ==
    PropertyInputs \cup ClusteringInputs \cup CommentInputs \cup PresenceInputs \cup LiteralInputs
        \cup CompleteInputs
        \cup RowFormatInputs \cup SerdePropertyInputs \cup FileFormatInputs

InitClauses ==
    /\ \E input \in ClauseInputs :
          /\ ddl_text = input.ddl
          /\ table_metadata = input.metadata
    /\ ddl_clauses_list = InitialDdlClausesList
    /\ ddl_row_format_subclauses_list = InitialDdlRowFormatSubclausesList
    /\ pc = "prepare"
    /\ normalized_ddl_text = ""
    /\ ddl_columns_segment = ""
    /\ ddl_other_segments = ""
    /\ ddl_clause_list_sorted = << >>
    /\ ddl_segments = << >>
    /\ calls = << >>
    /\ outcome = Pending
    /\ history = << >>
    /\ split_text = ""
    /\ split_result = SplitRaise("")
    /\ row_format_subclauses_list_sorted = << >>
    /\ row_format_sub_segments = << >>
    /\ tables_metadata_list = << table_metadata >>
    /\ athena_tables = << [table_name |-> "t", ddl_text |-> ddl_text] >>
    /\ table_index = 1
    /\ executed_queries = << >>

\* The segments has_table_structure_changed hands to its comparators: the
\* normalised text is split at the column list, the remainder is indexed and
\* cut into segments.
PrepareSegments ==
    /\ pc = "prepare"
    /\ normalized_ddl_text' = NormalizeDdlText(ddl_text)
    /\ LET r == split_ddl_columns_segment(NormalizeDdlText(ddl_text))
       IN  IF r.kind = "raise"
           THEN /\ outcome' = Raise(r.err)
                /\ pc' = "applied"
                /\ UNCHANGED << ddl_columns_segment, ddl_other_segments, ddl_clause_list_sorted,
                                ddl_segments >>
           ELSE LET remainder == Strip(r.remainder)
                    sorted == index_ddl_clauses(remainder, ddl_clauses_list)
                IN  /\ ddl_columns_segment' = r.columns
                    /\ ddl_other_segments' = remainder
                    /\ ddl_clause_list_sorted' = sorted
                    /\ ddl_segments' = segmentize_ddl_by_clause(remainder, sorted)
                    /\ pc' = "apply_comment"
                    /\ UNCHANGED outcome
    /\ UNCHANGED << row_format_vars, caller_vars, ddl_text, table_metadata, ddl_clauses_list,
                    ddl_row_format_subclauses_list, calls, history, split_text, split_result >>

\* One comparator applied to the prepared segments; its result is recorded
\* and the next comparator follows whatever the result.
Apply(name, result, next) ==
    /\ calls' = Append(calls, [name |-> name, result |-> result])
    /\ pc' = next
    /\ UNCHANGED << row_format_vars, caller_vars, ddl_text, table_metadata, ddl_clauses_list,
                    ddl_row_format_subclauses_list, normalized_ddl_text, ddl_columns_segment,
                    ddl_other_segments, ddl_clause_list_sorted, ddl_segments, outcome, history,
                    split_text, split_result >>

ApplyTableComment ==
    pc = "apply_comment"
        /\ Apply("comment", has_table_comment_changed(table_metadata, ddl_segments),
                 "apply_partitioning")

ApplyPartitioning ==
    pc = "apply_partitioning"
        /\ Apply("partitioning", has_partitioning_changed(table_metadata, ddl_segments),
                 "apply_clustering")

ApplyClustering ==
    pc = "apply_clustering"
        /\ Apply("clustering", has_clustering_changed(table_metadata, ddl_segments),
                 "apply_row_format_type")

\* The first half of has_row_format_changed for a DDL with a ROW FORMAT
\* segment: the segment is indexed and cut with the sub-clause catalog and
\* determine_row_format_type classifies it.
ApplyRowFormatType ==
    /\ pc = "apply_row_format_type"
    /\ LET ddl_row_format_segment == SegmentStartingWith(ddl_segments, "row format ")
       IN  IF ddl_row_format_segment = None
           THEN /\ UNCHANGED << row_format_vars, calls >>
           ELSE LET sorted == index_ddl_clauses(ddl_row_format_segment[1],
                                                ddl_row_format_subclauses_list)
                IN  /\ row_format_subclauses_list_sorted' = sorted
                    /\ row_format_sub_segments' =
                           segmentize_ddl_by_clause(ddl_row_format_segment[1], sorted)
                    /\ calls' = Append(calls, [name |-> "row_format_type",
                                               result |-> determine_row_format_type(sorted)])
    /\ pc' = "apply_row_format"
    /\ UNCHANGED << caller_vars, ddl_text, table_metadata, ddl_clauses_list,
                    ddl_row_format_subclauses_list, normalized_ddl_text, ddl_columns_segment,
                    ddl_other_segments, ddl_clause_list_sorted, ddl_segments, outcome, history,
                    split_text, split_result >>

ApplyRowFormat ==
    pc = "apply_row_format"
        /\ Apply("row_format", has_row_format_changed(table_metadata, ddl_segments),
                 "apply_file_format")

ApplyFileFormat ==
    pc = "apply_file_format"
        /\ Apply("file_format", has_file_format_changed(table_metadata, ddl_segments),
                 "apply_location")

ApplyTableLocation ==
    pc = "apply_location"
        /\ Apply("location", has_table_location_changed(table_metadata, ddl_segments),
                 "apply_tblproperties")

ApplyTblproperties ==
    pc = "apply_tblproperties"
        /\ Apply("tblproperties", have_tblproperties_changed(table_metadata, ddl_segments),
                 "applied")

NextClauses ==
    \/ PrepareSegments
    \/ ApplyTableComment
    \/ ApplyPartitioning
    \/ ApplyClustering
    \/ ApplyRowFormatType
    \/ ApplyRowFormat
    \/ ApplyFileFormat
    \/ ApplyTableLocation
    \/ ApplyTblproperties

SpecClauses == InitClauses /\ [][NextClauses]_vars

(***************************************************************************)
(* process_athena_tables: the caller of the detector                       *)
(*                                                                         *)
(* For every configured table the catalog is consulted: a table that does  *)
(* not exist is created, a view is created again, and an existing table    *)
(* goes through detect_table_changes, which drops and recreates it when    *)
(* has_table_structure_changed returns True.  Every query goes through     *)
(* execute_query, which waits for Athena to finish it.                     *)
(***************************************************************************)
DbName == "db"

TableConfig(name, text) == [table_name |-> name, ddl_text |-> text]

\* A partitioned Parquet table.
PartitionedScript ==
    [PlainScript EXCEPT !.partitioning = Option("partitioning", "\nPARTITIONED BY (dt string)"),
                        !.file_format = Option("file_format", "\nSTORED AS PARQUET")]

\* The DDL scripts configured for table t: partitioned, not partitioned, and
\* one that lacks the LOCATION clause.
TableScripts ==
    {PartitionedScript, PlainScript, [PlainScript EXCEPT !.location = Option("location", "")]}

ViewDdl == "CREATE OR REPLACE VIEW ^db^.^v^ AS\nSELECT id, name FROM ^db^.^t^;\n"

ViewConfig == TableConfig("v", ViewDdl)

OtherTableConfig == TableConfig("u", Replace(ScriptText(PlainScript), "^t^", "^u^"))

\* config_dict['athena_tables']: table t alone, behind a view, followed by
\* table u, or between the two.
ConfiguredTables ==
    UNION {{<< TableConfig("t", ScriptText(script)) >>,
            << ViewConfig, TableConfig("t", ScriptText(script)) >>,
            << TableConfig("t", ScriptText(script)), OtherTableConfig >>,
            << ViewConfig, TableConfig("t", ScriptText(script)), OtherTableConfig >>}
               : script \in TableScripts}

\* The catalog's elements for one name: none, or one element.
CatalogOfT ==
    {<< >>,
     << Metadata(ScriptFragments(PartitionedScript)) >>,
     << Metadata(PlainFragments) >>,
     << Metadata([PlainFragments EXCEPT !.location = "s3://b/u"]) >>,
     << [Metadata(PlainFragments) EXCEPT !.TableType = "VIRTUAL_VIEW"] >>}

CatalogOfV ==
    {<< >>, << [Metadata(PlainFragments) EXCEPT !.Name = "v", !.TableType = "VIRTUAL_VIEW"] >>}

CatalogOfU ==
    {<< >>, << [Metadata([PlainFragments EXCEPT !.location = "s3://b/u"]) EXCEPT !.Name = "u"] >>}

\* construct_tables_metadata_list(db_name)
Catalogs == {u \o t \o v : u \in CatalogOfU, t \in CatalogOfT, v \in CatalogOfV}

InitTables ==
    /\ athena_tables \in ConfiguredTables
    /\ tables_metadata_list \in Catalogs
    /\ table_index = 1
    /\ executed_queries = << >>
    /\ pc = "next_table"
    /\ ddl_text = ""
    /\ table_metadata = << >>
    /\ ddl_clauses_list = InitialDdlClausesList
    /\ ddl_row_format_subclauses_list = InitialDdlRowFormatSubclausesList
    /\ normalized_ddl_text = ""
    /\ ddl_columns_segment = ""
    /\ ddl_other_segments = ""
    /\ ddl_clause_list_sorted = << >>
    /\ ddl_segments = << >>
    /\ calls = << >>
    /\ outcome = Pending
    /\ history = << >>
    /\ split_text = ""
    /\ split_result = SplitRaise("")
    /\ row_format_subclauses_list_sorted = << >>
    /\ row_format_sub_segments = << >>

\* ProcessNextTable without the branch for views: every existing object goes
\* through detect_table_changes.
ProcessNextTableDetectingViews ==
    /\ pc = "next_table"
    /\ IF table_index > Len(athena_tables)
       THEN /\ pc' = "finished"
            /\ UNCHANGED << ddl_text, table_metadata, normalized_ddl_text, ddl_columns_segment,
                            ddl_other_segments, ddl_clause_list_sorted, ddl_segments, calls,
                            outcome >>
       ELSE LET table_config == athena_tables[table_index]
                found == SelectSeq(tables_metadata_list,
                                   LAMBDA element : element.Name = table_config.table_name)
            IN  /\ ddl_text' = table_config.ddl_text
                /\ table_metadata' = IF Len(found) = 0 THEN << >> ELSE found[1]
                /\ pc' = IF Len(found) = 0 THEN "create" ELSE "normalize"
                /\ normalized_ddl_text' = ""
                /\ ddl_columns_segment' = ""
                /\ ddl_other_segments' = ""
                /\ ddl_clause_list_sorted' = << >>
                /\ ddl_segments' = << >>
                /\ calls' = << >>
                /\ outcome' = Pending
    /\ UNCHANGED << row_format_vars, caller_vars, ddl_clauses_list, ddl_row_format_subclauses_list,
                    history, split_text, split_result >>

\* One turn of the for loop of process_athena_tables up to the call it
\* makes: create_table for a table the catalog does not have and for a view,
\* detect_table_changes for any other existing table.
ProcessNextTable ==
    /\ pc = "next_table"
    /\ IF table_index > Len(athena_tables)
       THEN /\ pc' = "finished"
            /\ UNCHANGED << ddl_text, table_metadata, normalized_ddl_text, ddl_columns_segment,
                            ddl_other_segments, ddl_clause_list_sorted, ddl_segments, calls,
                            outcome >>
       ELSE LET table_config == athena_tables[table_index]
                found == SelectSeq(tables_metadata_list,
                                   LAMBDA element : element.Name = table_config.table_name)
            IN  /\ ddl_text' = table_config.ddl_text
                /\ table_metadata' = IF Len(found) = 0 THEN << >> ELSE found[1]
                /\ pc' = IF Len(found) = 0 THEN "create"
                         ELSE IF found[1].TableType = "VIRTUAL_VIEW" THEN "create"
                         ELSE "normalize"
                /\ normalized_ddl_text' = ""
                /\ ddl_columns_segment' = ""
                /\ ddl_other_segments' = ""
                /\ ddl_clause_list_sorted' = << >>
                /\ ddl_segments' = << >>
                /\ calls' = << >>
                /\ outcome' = Pending
    /\ UNCHANGED << row_format_vars, caller_vars, ddl_clauses_list, ddl_row_format_subclauses_list,
                    history, split_text, split_result >>

\* RecreateOnChange without drop_table: the verdict True leads to
\* create_table at once.
RecreateOnChangeWithoutDrop ==
    /\ pc = "done"
    /\ IF outcome.kind = "raise" THEN pc' = "aborted" /\ UNCHANGED table_index
       ELSE IF outcome.val THEN pc' = "create" /\ UNCHANGED table_index
       ELSE pc' = "next_table" /\ table_index' = table_index + 1
    /\ UNCHANGED << row_format_vars, tables_metadata_list, athena_tables, executed_queries,
                    ddl_text, table_metadata, ddl_clauses_list, ddl_row_format_subclauses_list,
                    normalized_ddl_text, ddl_columns_segment, ddl_other_segments,
                    ddl_clause_list_sorted, ddl_segments, calls, outcome, history, split_text,
                    split_result >>

\* The end of detect_table_changes: an exception of the detector leaves
\* process_athena_tables, the verdict True leads to drop_table and
\* create_table, any other verdict to the next table.
RecreateOnChange ==
    /\ pc = "done"
    /\ IF outcome.kind = "raise" THEN pc' = "aborted" /\ UNCHANGED table_index
       ELSE IF outcome.val THEN pc' = "drop" /\ UNCHANGED table_index
       ELSE pc' = "next_table" /\ table_index' = table_index + 1
    /\ UNCHANGED << row_format_vars, tables_metadata_list, athena_tables, executed_queries,
                    ddl_text, table_metadata, ddl_clauses_list, ddl_row_format_subclauses_list,
                    normalized_ddl_text, ddl_columns_segment, ddl_other_segments,
                    ddl_clause_list_sorted, ddl_segments, calls, outcome, history, split_text,
                    split_result >>

\* athena_client.start_query_execution: the query is handed to Athena.
Submit(query_string, wait) ==
    /\ executed_queries' = Append(executed_queries,
                                  [table |-> athena_tables[table_index].table_name,
                                   query |-> query_string, state |-> "QUEUED"])
    /\ pc' = wait
    /\ UNCHANGED << row_format_vars, tables_metadata_list, athena_tables, table_index,
                    ddl_text, table_metadata, ddl_clauses_list, ddl_row_format_subclauses_list,
                    normalized_ddl_text, ddl_columns_segment, ddl_other_segments,
                    ddl_clause_list_sorted, ddl_segments, calls, outcome, history, split_text,
                    split_result >>

\* drop_table up to the submission of its query
DropTable ==
    /\ pc = "drop"
    /\ Submit((IF table_metadata.TableType = "VIRTUAL_VIEW"
               THEN "DROP VIEW IF EXISTS " ELSE "DROP TABLE IF EXISTS ")
                  \o DbName \o "." \o athena_tables[table_index].table_name,
              "wait_drop")

\* create_table up to the submission of the DDL
CreateTable ==
    /\ pc = "create"
    /\ Submit(ddl_text, "wait_create")

\* create_table: the partitions are loaded
LoadPartitions ==
    /\ pc = "reload"
    /\ Submit("MSCK REPAIR TABLE " \o DbName \o "." \o athena_tables[table_index].table_name,
              "wait_reload")

\* The states Athena reports for a query, and the ones it may move to.
QueryStatesAfter ==
    [QUEUED |-> {"RUNNING", "FAILED", "CANCELLED"},
     RUNNING |-> {"SUCCEEDED", "FAILED", "CANCELLED"},
     SUCCEEDED |-> {}, FAILED |-> {}, CANCELLED |-> {}]

\* query_execution_waiter keeps polling while the query is in these states.
query_execution_waiter_polls(state) == state \in {"QUEUED", "RUNNING"}

\* The state of the query for which execute_query raises its exception.
execute_query_raises(state) == state = "FAILED"

\* Athena moves the submitted query on while query_execution_waiter polls.
QueryProgress ==
    /\ pc \in {"wait_drop", "wait_create", "wait_reload"}
    /\ LET n == Len(executed_queries)
       IN  /\ query_execution_waiter_polls(executed_queries[n].state)
           /\ \E state \in QueryStatesAfter[executed_queries[n].state] :
                 executed_queries' = [executed_queries EXCEPT ![n].state = state]
    /\ UNCHANGED << row_format_vars, tables_metadata_list, athena_tables, table_index, pc,
                    ddl_text, table_metadata, ddl_clauses_list, ddl_row_format_subclauses_list,
                    normalized_ddl_text, ddl_columns_segment, ddl_other_segments,
                    ddl_clause_list_sorted, ddl_segments, calls, outcome, history, split_text,
                    split_result >>

\* ExecuteQueryReturns with the exception of execute_query caught by the
\* loop: the table is given up and the next one is handled.
ExecuteQueryReturnsSkippingTable ==
    /\ pc \in {"wait_drop", "wait_create", "wait_reload"}
    /\ LET state == executed_queries[Len(executed_queries)].state
       IN  /\ ~query_execution_waiter_polls(state)
           /\ IF execute_query_raises(state)
              THEN pc' = "next_table" /\ table_index' = table_index + 1
              ELSE IF pc = "wait_drop" THEN pc' = "create" /\ UNCHANGED table_index
              ELSE IF pc = "wait_create" /\ Find(Lower(ddl_text), "partitioned by") >= 0
              THEN pc' = "reload" /\ UNCHANGED table_index
              ELSE pc' = "next_table" /\ table_index' = table_index + 1
    /\ UNCHANGED << row_format_vars, tables_metadata_list, athena_tables, executed_queries,
                    ddl_text, table_metadata, ddl_clauses_list, ddl_row_format_subclauses_list,
                    normalized_ddl_text, ddl_columns_segment, ddl_other_segments,
                    ddl_clause_list_sorted, ddl_segments, calls, outcome, history, split_text,
                    split_result >>

\* execute_query once query_execution_waiter has returned, and the statement
\* of the caller that follows it: create_table behind drop_table, the load
\* of the partitions behind the DDL that has a "partitioned by", the next
\* table otherwise.
ExecuteQueryReturns ==
    /\ pc \in {"wait_drop", "wait_create", "wait_reload"}
    /\ LET state == executed_queries[Len(executed_queries)].state
       IN  /\ ~query_execution_waiter_polls(state)
           /\ IF execute_query_raises(state) THEN pc' = "aborted" /\ UNCHANGED table_index
              ELSE IF pc = "wait_drop" THEN pc' = "create" /\ UNCHANGED table_index
              ELSE IF pc = "wait_create" /\ Find(Lower(ddl_text), "partitioned by") >= 0
              THEN pc' = "reload" /\ UNCHANGED table_index
              ELSE pc' = "next_table" /\ table_index' = table_index + 1
    /\ UNCHANGED << row_format_vars, tables_metadata_list, athena_tables, executed_queries,
                    ddl_text, table_metadata, ddl_clauses_list, ddl_row_format_subclauses_list,
                    normalized_ddl_text, ddl_columns_segment, ddl_other_segments,
                    ddl_clause_list_sorted, ddl_segments, calls, outcome, history, split_text,
                    split_result >>

NextTables ==
    \/ ProcessNextTable
    \/ Normalize
    \/ SplitColumns
    \/ IndexClauses
    \/ HaveColumnsChanged
    \/ Segmentize
    \/ HasTableCommentChanged
    \/ HasPartitioningChanged
    \/ HasClusteringChanged
    \/ HasRowFormatChanged
    \/ HasFileFormatChanged
    \/ HasTableLocationChanged
    \/ HaveTblpropertiesChanged
    \/ RecreateOnChange
    \/ DropTable
    \/ CreateTable
    \/ LoadPartitions
    \/ QueryProgress
    \/ ExecuteQueryReturns

SpecTables == InitTables /\ [][NextTables]_vars

(***************************************************************************)
(* Properties of has_table_structure_changed                               *)
(***************************************************************************)
\* The order in which the detector is stated to consult its comparators.
ComparatorOrder ==
    << "columns", "comment", "partitioning", "clustering", "row_format", "file_format",
       "location", "tblproperties" >>

\* C1: the comparators are invoked in the fixed order columns, table comment,
\* partitioning, clustering, row format, file format, location, table
\* properties; the detector returns true as soon as one of them returns true,
\* without invoking any later one, and returns false only when all eight have
\* been invoked and returned false.
ComparatorsRunInOrderUntilFirstTrue ==
    /\ Len(calls) <= Len(ComparatorOrder)
    /\ \A i \in 1..Len(calls) : calls[i].name = ComparatorOrder[i]
    /\ \A i \in 1..(Len(calls) - 1) : calls[i].result = Return(FALSE)
    /\ (calls # << >> /\ calls[Len(calls)].result = Return(TRUE)) => outcome = Return(TRUE)
    /\ outcome = Return(TRUE) => (calls # << >> /\ calls[Len(calls)].result = Return(TRUE))
    /\ outcome = Return(FALSE) <=>
          /\ Len(calls) = Len(ComparatorOrder)
          /\ \A i \in 1..Len(calls) : calls[i].result = Return(FALSE)

\* The row-format comparator returned true and ended the call although the
\* location comparator, had it been reached, would have raised.
WitnessEarlyReturn ==
    /\ outcome = Return(TRUE)
    /\ Len(calls) = 5
    /\ has_table_location_changed(table_metadata, ddl_segments).kind = "raise"

\* The script whose text is the DDL under comparison.
ScriptOf == CHOOSE d \in Scripts : ddl_text = ScriptText(d)

WellFormed(script) == \A c \in ClauseNames : script[c].wf

\* C2: a well-formed DDL and a metadata snapshot describing the same schema
\* (same columns, comment, partitioning, bucketing, row format, file format,
\* location and properties) are reported as unchanged.
SameSchemaIsReportedUnchanged ==
    (/\ pc = "done"
     /\ WellFormed(ScriptOf)
     /\ Fragments(table_metadata) = ScriptFragments(ScriptOf))
        => outcome = Return(FALSE)

\* C3: when a well-formed DDL and the metadata differ in exactly one clause,
\* the detector returns true and the comparator that returned true is the one
\* of that clause.
SingleDifferenceIsReportedByItsComparator ==
    (pc = "done" /\ WellFormed(ScriptOf)) =>
        \A c \in ClauseNames :
            (/\ Fragments(table_metadata)[c] # ScriptOf[c].meta
             /\ \A e \in ClauseNames \ {c} : Fragments(table_metadata)[e] = ScriptOf[e].meta)
                => /\ outcome = Return(TRUE)
                   /\ calls # << >>
                   /\ calls[Len(calls)].name = c

\* C4: a second call on the same DDL text and metadata has the outcome of the
\* first, and no step of a call changes the metadata, the DDL text or either
\* of the two module-level marker lists.
DetectorIsRepeatable ==
    /\ [](pc = "done" => \A i \in 1..Len(history) : history[i] = outcome)
    /\ [][/\ table_metadata' = table_metadata
          /\ ddl_text' = ddl_text
          /\ (pc # "normalize" => normalized_ddl_text' = normalized_ddl_text)
          /\ ddl_clauses_list' = ddl_clauses_list
          /\ ddl_row_format_subclauses_list' = ddl_row_format_subclauses_list]_vars

\* A second call has finished with a verdict, after a first call that went
\* through the marker lists.
WitnessSecondCall ==
    /\ pc = "done"
    /\ Len(history) = 1
    /\ outcome = Return(FALSE)
    /\ history[1] = Return(FALSE)

(***************************************************************************)
(* Properties of split_ddl_columns_segment                                 *)
(***************************************************************************)
\* The number of "(" minus the number of ")" among the first n characters.
DepthAfter(text, n) ==
    Cardinality({i \in 0..(n - 1) : CharAt(text, i) = "("})
        - Cardinality({i \in 0..(n - 1) : CharAt(text, i) = ")"})

\* The offsets just behind a ")" that closes a group opened by the first
\* parenthesis of the text, with no ")" before that group.
GroupEnds(text) ==
    {n \in 1..Len(text) :
        /\ CharAt(text, n - 1) = ")"
        /\ DepthAfter(text, n) = 0
        /\ \A m \in 1..(n - 1) : DepthAfter(text, m) >= 0}

HasBalancedFirstGroup(text) == GroupEnds(text) # {}

\* The offset just behind the ")" matching the first "(".
FirstGroupEnd(text) == CHOOSE n \in GroupEnds(text) : \A m \in GroupEnds(text) : n <= m

FirstOpen(text) == CHOOSE o \in 0..(Len(text) - 1) :
                      /\ CharAt(text, o) = "("
                      /\ \A i \in 0..(o - 1) : CharAt(text, i) # "("

\* C5: for a text whose first parenthesized group is balanced, the result is
\* the text between the first "(" and its matching ")", trimmed, together
\* with everything after that ")", whatever the nesting inside the group.
SplitReturnsFirstGroupAndRemainder ==
    (pc = "split_done" /\ HasBalancedFirstGroup(split_text)) =>
        split_result = SplitOk(Strip(Slice(split_text, FirstOpen(split_text) + 1,
                                           FirstGroupEnd(split_text) - 1)),
                               SliceFrom(split_text, FirstGroupEnd(split_text)))

\* The column list with a nested decimal(10,2) has been split off.
WitnessNestedGroup ==
    /\ pc = "split_done"
    /\ split_text = "create external table t (id int, amt decimal(10,2)) stored as orc"
    /\ split_result = SplitOk("id int, amt decimal(10,2)", " stored as orc")

\* A ")" of the text with no "(" left to match it.
HasUnmatchedClose(text) ==
    \E c \in 0..(Len(text) - 1) :
        /\ CharAt(text, c) = ")"
        /\ \A n \in 0..c : DepthAfter(text, c + 1) < DepthAfter(text, n)

\* A "(" of the text that no later ")" matches.
HasUnclosedOpen(text) ==
    \E o \in 0..(Len(text) - 1) :
        /\ CharAt(text, o) = "("
        /\ \A n \in (o + 1)..Len(text) : DepthAfter(text, n) > DepthAfter(text, o)

\* The two failures reported as unbalanced parentheses: the bare IndexError
\* raised under that log message, and the exception carrying the message.
UnbalancedErrors ==
    {SplitRaise("IndexError"),
     SplitRaise("Encountered unbalanced parentheses while parsing the columns list in DDL")}

\* C6 as stated: the extractor fails with the unbalanced-parentheses error
\* whenever the text has an unmatched ")" or an unclosed "(" anywhere, and
\* returns a result only for a text with neither.
SplitFailsOnAnyUnbalancedText ==
    pc = "split_done" =>
        /\ (HasUnmatchedClose(split_text) \/ HasUnclosedOpen(split_text))
              => split_result \in UnbalancedErrors
        /\ split_result.kind = "return"
              => ~(HasUnmatchedClose(split_text) \/ HasUnclosedOpen(split_text))

\* The part of the text the extractor scans: up to the ")" closing the first
\* group when there is one, the whole text otherwise.
Scanned(text) ==
    IF HasBalancedFirstGroup(text) THEN Slice(text, 0, FirstGroupEnd(text)) ELSE text

\* C6 amended: the extractor fails with the unbalanced-parentheses error
\* exactly when the text up to the ")" that closes the first group has an
\* unmatched ")" or an unclosed "("; it returns a result exactly when the
\* first group is balanced, whatever follows the group.
SplitFailsOnUnbalancedScannedText ==
    pc = "split_done" =>
        /\ (HasUnmatchedClose(Scanned(split_text)) \/ HasUnclosedOpen(Scanned(split_text)))
              <=> split_result \in UnbalancedErrors
        /\ split_result.kind = "return" <=> HasBalancedFirstGroup(split_text)

\* A text whose first group holds a closed inner group but is itself never
\* closed has failed the call.
WitnessUnclosedGroup ==
    /\ pc = "split_done"
    /\ split_text = "((a)"
    /\ HasUnclosedOpen(Scanned(split_text))
    /\ split_result \in UnbalancedErrors

(***************************************************************************)
(* Properties of the comparators' error handling                           *)
(***************************************************************************)
LocationMarkerAbsent == Find(ddl_other_segments, "location 's3:") = NOT_FOUND

\* C7 as stated: a DDL with no location 's3: marker after the column list
\* makes the detector raise, whatever the other clauses and the metadata hold.
MissingLocationAlwaysRaises ==
    (pc = "done" /\ LocationMarkerAbsent) => outcome.kind = "raise"

\* C7 amended: a DDL with no location 's3: marker after the column list never
\* yields false: the detector raises, unless one of the six comparators that
\* run before the location comparator returns true and ends the call; once all
\* six have returned false the location comparator raises its error.
MissingLocationRaisesUnlessEarlierChange ==
    (pc = "done" /\ LocationMarkerAbsent) =>
        /\ outcome # Return(FALSE)
        /\ outcome = Return(TRUE) =>
              (Len(calls) \in 1..6 /\ calls[Len(calls)].result = Return(TRUE))
        /\ Len(calls) >= 7 =>
              (/\ Len(calls) = 7
               /\ outcome = Raise("The mandatory LOCATION clause is missing in the DDL"))

\* The location comparator was reached on a DDL without LOCATION and raised.
WitnessMissingLocation ==
    /\ pc = "done"
    /\ LocationMarkerAbsent
    /\ Len(calls) = 7
    /\ outcome = Raise("The mandatory LOCATION clause is missing in the DDL")

\* C8: a ROW FORMAT clause holding none of serde ', with serdeproperties (
\* and delimited makes the row-format comparator raise.
RowFormatWithoutVariantRaises ==
    Len(calls) >= 5 =>
        LET row_format == SegmentStartingWith(ddl_segments, "row format")
        IN  (/\ row_format # None
             /\ ~Contains(row_format[1], "serde '")
             /\ ~Contains(row_format[1], "with serdeproperties (")
             /\ ~Contains(row_format[1], "delimited"))
                => calls[5].result.kind = "raise"

\* C9: a STORED AS value that is none of the six format names and does not
\* start with inputformat makes the file-format comparator raise; every other
\* value makes it return a boolean.
StoredAsRaisesOnlyOnUnknownValue ==
    Len(calls) >= 6 =>
        LET stored_as == SegmentStartingWith(ddl_segments, "stored as")
        IN  stored_as # None =>
                LET value == Replace(stored_as[1], "stored as ", "")
                IN  IF \/ value \in {"textfile", "parquet", "sequencefile", "rcfile", "orc", "avro"}
                       \/ StartsWith(value, "inputformat")
                    THEN calls[6].result \in {Return(TRUE), Return(FALSE)}
                    ELSE calls[6].result.kind = "raise"

\* C10: with no ROW FORMAT clause in the DDL and a metadata serde of
\* LazySimpleSerDe whose only parameter is serialization.format = 1, the
\* row-format comparator returns false.
DefaultSerdeMatchesAbsentRowFormat ==
    (/\ Len(calls) >= 5
     /\ Find(ddl_other_segments, "row format") = NOT_FOUND
     /\ table_metadata.StorageDescriptor.SerdeInfo.SerializationLibrary
            = "org.apache.hadoop.hive.serde2.lazy.LazySimpleSerDe"
     /\ table_metadata.StorageDescriptor.SerdeInfo.Parameters = ("serialization.format" :> "1"))
        => calls[5].result = Return(FALSE)

\* The row-format comparator has returned false for such a table.
WitnessDefaultSerde ==
    /\ Len(calls) >= 5
    /\ Find(ddl_other_segments, "row format") = NOT_FOUND
    /\ table_metadata.StorageDescriptor.SerdeInfo.SerializationLibrary
           = "org.apache.hadoop.hive.serde2.lazy.LazySimpleSerDe"
    /\ table_metadata.StorageDescriptor.SerdeInfo.Parameters = ("serialization.format" :> "1")
    /\ calls[5].result = Return(FALSE)


(***************************************************************************)
(* Properties of the comparators                                           *)
(***************************************************************************)
\* The result the named comparator returned when it was applied.
RECURSIVE ResultIn(_, _)
ResultIn(recorded, name) ==
    IF recorded = << >> THEN Pending
    ELSE IF Head(recorded).name = name THEN Head(recorded).result
    ELSE ResultIn(Tail(recorded), name)

Applied(name) == \E i \in 1..Len(calls) : calls[i].name = name

\* The segments has_table_structure_changed cuts the DDL text into.
SegmentsOfDdl(text) ==
    LET remainder == Strip(split_ddl_columns_segment(NormalizeDdlText(text)).remainder)
    IN  segmentize_ddl_by_clause(remainder, index_ddl_clauses(remainder, ddl_clauses_list))

\* C11: the result of have_tblproperties_changed does not depend on the
\* properties outside the allow-list: an input gets the result of the input
\* that has the same allow-listed properties on both sides and no other
\* property on either side, so any two inputs that differ only in properties
\* outside the allow-list get the same result.
UnlistedPropertiesAreIgnored ==
    Applied("tblproperties") =>
        \A dl \in DdlListedProperties, du \in DdlUnlistedProperties,
           ml \in MetaListedProperties, mu \in MetaUnlistedProperties :
            LET input == PropertyInput(dl, du, ml, mu)
                listed_only == PropertyInput(dl, << >>, ml, EmptyDict)
            IN  (ddl_text = input.ddl /\ table_metadata = input.metadata)
                    => ResultIn(calls, "tblproperties")
                           = have_tblproperties_changed(listed_only.metadata,
                                                        SegmentsOfDdl(listed_only.ddl))

\* The names of a column list, lower-cased and joined by a comma and a blank.
RECURSIVE LowerJoined(_)
LowerJoined(names) ==
    IF names = << >> THEN ""
    ELSE Lower(names[1]) \o (IF Len(names) > 1 THEN ", " ELSE "") \o LowerJoined(Tail(names))

CatalogElements(i) ==
    SelectSeq(tables_metadata_list, LAMBDA element : element.Name = athena_tables[i].table_name)

ExistingView(i) ==
    CatalogElements(i) # << >> /\ CatalogElements(i)[1].TableType = "VIRTUAL_VIEW"

ExistingTable(i) ==
    CatalogElements(i) # << >> /\ CatalogElements(i)[1].TableType # "VIRTUAL_VIEW"

\* The queries submitted for the table configured at position i.
QueriesFor(i) ==
    SelectSeq(executed_queries, LAMBDA q : q.table = athena_tables[i].table_name)

\* The positions inside detect_table_changes and has_table_structure_changed.
DetectorPositions ==
    {"normalize", "split", "index", "columns", "segmentize", "comment", "partitioning",
     "clustering", "row_format", "file_format", "location", "tblproperties", "done"}

\* C13: an existing object of type VIRTUAL_VIEW is never handed to the
\* detector and never dropped, and once process_athena_tables has taken it up
\* its DDL is the query submitted for it; the detector runs only for existing
\* objects that are not views.
ViewsAreRecreatedWithoutDetection ==
    /\ \A i \in 1..Len(athena_tables) :
          ExistingView(i) =>
              /\ table_index = i => (pc \notin DetectorPositions \cup {"drop", "wait_drop"}
                                        /\ (pc # "next_table" => calls = << >>))
              /\ \A k \in 1..Len(QueriesFor(i)) : ~StartsWith(QueriesFor(i)[k].query, "DROP")
              /\ (table_index > i \/ (table_index = i /\ pc \notin {"next_table", "create"}))
                    => (/\ QueriesFor(i) # << >>
                        /\ QueriesFor(i)[1].query = athena_tables[i].ddl_text)
    /\ pc \in DetectorPositions => ExistingTable(table_index)

\* The view v exists, its DDL was submitted and succeeded, nothing else was
\* submitted for it, and the run has gone on to the next table.
WitnessViewRecreated ==
    \E i \in 1..Len(athena_tables) :
        /\ ExistingView(i)
        /\ athena_tables[i] = ViewConfig
        /\ table_index > i
        /\ QueriesFor(i) = << [table |-> "v", query |-> ViewDdl, state |-> "SUCCEEDED"] >>

\* The script of table t whose text is the given DDL has a PARTITIONED BY clause.
HasPartitioningClause(text) ==
    \E script \in TableScripts : script.partitioning.ddl # "" /\ text = ScriptText(script)

\* The queries of a recreate of the table configured at position i.
RecreateQueries(i) ==
    << "DROP TABLE IF EXISTS db." \o athena_tables[i].table_name, athena_tables[i].ddl_text >>
        \o (IF HasPartitioningClause(athena_tables[i].ddl_text)
            THEN << "MSCK REPAIR TABLE db." \o athena_tables[i].table_name >> ELSE << >>)

EntryOf(sorted, marker) == CHOOSE e \in {sorted[i] : i \in 1..Len(sorted)} : e.Clause = marker

\* C15: the table COMMENT marker is recorded at offset 0 when comment ' is
\* found at offset 0 of the text behind the column list, and as not found
\* otherwise; when it first occurs at another offset no segment starts with
\* comment and has_table_comment_changed reports a change exactly when the
\* catalog has a comment, as for a DDL without table comment.
TableCommentIsIndexedAtOffsetZeroOnly ==
    pc \notin {"prepare"} =>
        LET offset == Find(ddl_other_segments, "comment '")
        IN  /\ EntryOf(ddl_clause_list_sorted, "comment '").Index
                   = (IF offset = 0 THEN 0 ELSE NOT_FOUND)
            /\ offset # 0 =>
                   /\ \A k \in 1..Len(ddl_segments) : ~StartsWith(ddl_segments[k], "comment")
                   /\ Applied("comment") =>
                          ResultIn(calls, "comment")
                              = Return("comment" \in DOMAIN table_metadata.Parameters)

\* A DDL whose only comment is the one of a partition column: the marker
\* occurs behind offset 0 and was recorded as not found, and the comparator
\* reported the catalog's table comment as a change.
WitnessPartitionColumnComment ==
    /\ Applied("comment")
    /\ Find(ddl_other_segments, "comment '") > 0
    /\ EntryOf(ddl_clause_list_sorted, "comment '").Index = NOT_FOUND
    /\ "comment" \in DOMAIN table_metadata.Parameters
    /\ ResultIn(calls, "comment") = Return(TRUE)

\* The offsets at which markers were found.
PresentOffsets(sorted) == {sorted[i].Index : i \in 1..Len(sorted)} \ {NOT_FOUND}

PresentCount(sorted) == Cardinality({i \in 1..Len(sorted) : sorted[i].Index # NOT_FOUND})

\* The offset at which the slice starting at offset ends: the next larger
\* offset of a found marker, the end of the text when there is none.
SliceEnd(text, sorted, offset) ==
    LET later == {o \in PresentOffsets(sorted) : o > offset}
    IN  IF later = {} THEN Len(text) ELSE CHOOSE o \in later : \A other \in later : o <= other

\* The segments are the trimmed slices of the text between the offsets of the
\* found markers, in the order of the offsets.
AreContiguousSlices(segments, text, sorted) ==
    /\ Len(segments) = PresentCount(sorted)
    /\ \A offset \in PresentOffsets(sorted) :
          LET rank == Cardinality({o \in PresentOffsets(sorted) : o <= offset})
          IN  /\ rank <= Len(segments)
              /\ segments[rank] = Strip(Slice(text, offset, SliceEnd(text, sorted, offset)))

\* C16: for the top-level catalog and for the ROW FORMAT sub-clause catalog,
\* the segments are one slice per found marker, ordered by offset, each from
\* its marker's offset to the offset of the next found marker and the last to
\* the end of the text (trimmed afterwards); markers not found give no segment.
SegmentsAreContiguousSlices ==
    /\ pc \notin {"prepare"} =>
           AreContiguousSlices(ddl_segments, ddl_other_segments, ddl_clause_list_sorted)
    /\ Applied("row_format_type") =>
           AreContiguousSlices(row_format_sub_segments,
                               SegmentStartingWith(ddl_segments, "row format ")[1],
                               row_format_subclauses_list_sorted)

\* Both catalogs at work: seven top-level segments, and a ROW FORMAT segment
\* cut into its serde and serdeproperties parts.
WitnessSevenSegments ==
    /\ Applied("row_format_type")
    /\ Len(ddl_segments) = 7
    /\ PresentCount(ddl_clause_list_sorted) = 7
    /\ Len(row_format_sub_segments) = 2

(***************************************************************************)
(* Properties of the row-format comparator                                 *)
(***************************************************************************)
\* The ROW FORMAT segment the classifier was given.
RowFormatSegment == SegmentStartingWith(ddl_segments, "row format ")[1]

\* C17: the classifier returns "with serdeproperties" whenever the marker
\* with serdeproperties ( occurs in the ROW FORMAT segment, "serde" when
\* serde ' occurs and with serdeproperties ( does not, and "delimited" when
\* delimited is the only one of the three markers that occurs.
RowFormatTypeFollowsCatalogOrder ==
    Applied("row_format_type") =>
        LET with_serdeproperties == Contains(RowFormatSegment, "with serdeproperties (")
            serde == Contains(RowFormatSegment, "serde '")
            delimited == Contains(RowFormatSegment, "delimited")
            type == ResultIn(calls, "row_format_type")
        IN  /\ with_serdeproperties => type = Return(ROW_FORMAT_WITH_SERDEPROPERTIES)
            /\ (serde /\ ~with_serdeproperties) => type = Return(ROW_FORMAT_SERDE)
            /\ (delimited /\ ~serde /\ ~with_serdeproperties) => type = Return(ROW_FORMAT_DELIMITED)

SerdeInfo == table_metadata.StorageDescriptor.SerdeInfo

\* C18: for a DDL without ROW FORMAT clause the row-format comparator returns
\* true when the metadata serde library is not under org.apache. or the
\* metadata has a serde parameter other than serialization.format, and false
\* otherwise.
AbsentRowFormatMatchesOnlyBareDefaultSerde ==
    (Applied("row_format") /\ ~Contains(ddl_other_segments, "row format")) =>
        ResultIn(calls, "row_format")
            = Return(\/ ~StartsWith(SerdeInfo.SerializationLibrary, "org.apache.")
                     \/ (DOMAIN SerdeInfo.Parameters) \ {"serialization.format"} # {})

\* C19: for the clause ROW FORMAT DELIMITED without sub-properties the
\* row-format comparator returns false exactly when the metadata serde
\* parameter serialization.format is "1", and true when it has another value
\* or is missing.
BareDelimitedMatchesSerializationFormatOne ==
    (Applied("row_format") /\ SegmentStartingWith(ddl_segments, "row format") = Some("row format delimited")) =>
        ResultIn(calls, "row_format")
            = Return(~(/\ "serialization.format" \in DOMAIN SerdeInfo.Parameters
                       /\ SerdeInfo.Parameters["serialization.format"] = "1"))

\* ROW FORMAT DELIMITED against a serde that is not of org.apache but has
\* serialization.format 1: no change was reported.
WitnessBareDelimitedFormatOne ==
    /\ Applied("row_format")
    /\ SegmentStartingWith(ddl_segments, "row format") = Some("row format delimited")
    /\ SerdeInfo = Serde(IonHiveSerDe, DefaultSerdeParameters)
    /\ ResultIn(calls, "row_format") = Return(FALSE)

(***************************************************************************)
(* Properties of the file-format comparator                                *)
(***************************************************************************)
\* The value of the STORED AS clause the comparator was given.
StoredAs ==
    LET segment == SegmentStartingWith(ddl_segments, "stored as")
    IN  IF segment = None THEN "" ELSE Replace(segment[1], "stored as ", "")

\* C20: has_file_format_changed compares both format identifiers of the
\* metadata, lower-cased: for one of the six keywords it returns false exactly
\* when InputFormat and OutputFormat are the pair of that format, and for an
\* explicit INPUTFORMAT ... OUTPUTFORMAT ... exactly when both identifiers
\* equal the ones written in the DDL.
FileFormatComparesBothIdentifiers ==
    Applied("file_format") =>
        LET input == Lower(table_metadata.StorageDescriptor.InputFormat)
            output == Lower(table_metadata.StorageDescriptor.OutputFormat)
            words == Split(StoredAs, " ")
            result == ResultIn(calls, "file_format")
        IN  /\ StoredAs \in DOMAIN CanonicalInputFormat =>
                   result = Return(~(/\ input = Lower(CanonicalInputFormat[StoredAs])
                                     /\ output = Lower(CanonicalOutputFormat[StoredAs])))
            /\ (Len(words) = 4 /\ words[1] = "inputformat" /\ words[3] = "outputformat") =>
                   result = Return(~(/\ input = StripChars(words[2], {"'"})
                                     /\ output = StripChars(words[4], {"'"})))

(***************************************************************************)
(* Properties of the serde-property comparison                             *)
(***************************************************************************)
RECURSIVE PairsDict(_)
\* The key/value set a property list names, in lower case as the normalised
\* DDL has it; a later pair of the same key replaces the earlier one.
PairsDict(pairs) ==
    IF pairs = << >> THEN EmptyDict
    ELSE (Lower(pairs[Len(pairs)][1]) :> Lower(pairs[Len(pairs)][2]))
             @@ PairsDict(SubSeq(pairs, 1, Len(pairs) - 1))

\* The DDL-derived set: the properties the DDL names, and serialization.format=1
\* when the metadata has that key and the DDL does not name it.
DdlSerdePropertySet(ddl_properties, meta_parameters) ==
    LET named == PairsDict(ddl_properties)
    IN  IF "serialization.format" \in DOMAIN LowerDict(meta_parameters)
               /\ "serialization.format" \notin DOMAIN named
        THEN named @@ DefaultSerdeParameters
        ELSE named

\* C21: for ROW FORMAT SERDE WITH SERDEPROPERTIES of the library the metadata
\* has, the comparison returns true when the metadata has no serde parameter,
\* and otherwise false exactly when the properties the DDL names, with
\* serialization.format=1 added when only the metadata has that key, are the
\* lower-cased metadata parameters, in whatever order they are written.
SerdePropertiesAreComparedAsSets ==
    Applied("row_format") =>
        \A ddl_properties \in DdlSerdeProperties, meta_parameters \in MetaSerdeParameters :
            LET input == SerdePropertyInput(ddl_properties, meta_parameters)
            IN  (ddl_text = input.ddl /\ table_metadata = input.metadata)
                    => ResultIn(calls, "row_format")
                           = Return(\/ DOMAIN meta_parameters = {}
                                    \/ DdlSerdePropertySet(ddl_properties, meta_parameters)
                                           # LowerDict(meta_parameters))

(***************************************************************************)
(* Properties of the table-property comparison                             *)
(***************************************************************************)
\* The allow-listed part of a dictionary with lower-case keys.
ListedProperties(d) == RestrictDict(d, {key \in DOMAIN d : MetaPropertyCompared(key)})

\* C22: have_tblproperties_changed returns false when neither side has an
\* allow-listed property, true when exactly one side has one, and with some on
\* both sides false exactly when the allow-listed properties the DDL names
\* are the lower-cased allow-listed parameters of the metadata, in whatever
\* order they are written.
TblpropertiesFourCombinations ==
    Applied("tblproperties") =>
        \A dl \in DdlListedProperties, du \in DdlUnlistedProperties,
           ml \in MetaListedProperties, mu \in MetaUnlistedProperties :
            LET input == PropertyInput(dl, du, ml, mu)
                ddl_set == ListedProperties(PairsDict(dl \o du))
                meta_set == ListedProperties(LowerDict(ml @@ mu))
            IN  (ddl_text = input.ddl /\ table_metadata = input.metadata)
                    => ResultIn(calls, "tblproperties")
                           = Return(CASE DOMAIN ddl_set = {} /\ DOMAIN meta_set = {} -> FALSE
                                      [] DOMAIN ddl_set = {} \/ DOMAIN meta_set = {} -> TRUE
                                      [] OTHER -> ddl_set # meta_set)

(***************************************************************************)
(* Properties of the comment and partitioning comparators                  *)
(***************************************************************************)
\* The canonical rendering of a catalog comment.
CanonicalComment(text) == Lower(Replace(text, "'", "\\'"))

RECURSIVE CanonicalPartitionKeys(_)
\* name type [comment 'text'] of every partition key, in catalog order.
CanonicalPartitionKeys(keys) ==
    IF keys = << >> THEN ""
    ELSE Lower(Head(keys).Name) \o " " \o Lower(Head(keys).Type)
             \o (IF "Comment" \in DOMAIN Head(keys)
                 THEN " comment '" \o CanonicalComment(Head(keys).Comment) \o "'" ELSE "")
             \o (IF Len(keys) > 1 THEN ", " ELSE "") \o CanonicalPartitionKeys(Tail(keys))

\* C23: the table-comment comparator and the partitioning comparator each
\* return false when the clause is absent from DDL and metadata, true when it
\* is on one side only, and with the clause on both sides false exactly when
\* the value the DDL gives is the canonical lower-case rendering of the
\* metadata.
CommentAndPartitioningFourCombinations ==
    (Applied("comment") /\ Applied("partitioning")) =>
        /\ \A c \in DdlComments, m \in MetaComments :
               LET input == PresenceInput(c, m, None, << >>)
               IN  (ddl_text = input.ddl /\ table_metadata = input.metadata)
                       => ResultIn(calls, "comment")
                              = Return(CASE c = None /\ m = None -> FALSE
                                         [] c = None \/ m = None -> TRUE
                                         [] OTHER -> Lower(c[1]) # CanonicalComment(m[1]))
        /\ \A p \in DdlPartitionings, k \in MetaPartitionings :
               LET input == PresenceInput(None, None, p, k)
               IN  (ddl_text = input.ddl /\ table_metadata = input.metadata)
                       => ResultIn(calls, "partitioning")
                              = Return(CASE p = None /\ k = << >> -> FALSE
                                         [] p = None \/ k = << >> -> TRUE
                                         [] OTHER -> Lower(p[1]) # CanonicalPartitionKeys(k))

(***************************************************************************)
(* The DDL script on its way to the detector                               *)
(*                                                                         *)
(* prep_ddl_script reads the script the configuration names, substitutes   *)
(* its parameters and strips its comments; detect_table_changes then       *)
(* normalises the text.  The scripts are every text of a few characters    *)
(* over the characters the two steps look at, and some complete scripts.   *)
(***************************************************************************)
\* The characters \s matches, among those of the scripts
RegexWhitespace == {" ", "\t", "\n", "\r", "\f"}

RECURSIVE WhitespaceStart(_, _)
\* The offset at which the white space that ends right before offset i starts.
WhitespaceStart(text, i) ==
    IF i > 0 /\ CharAt(text, i - 1) \in RegexWhitespace THEN WhitespaceStart(text, i - 1) ELSE i

RECURSIVE strip_comments(_)
\* re.sub('\s*--.*\n?', '', adhoc_text): the first match starts with the white
\* space before the first --, runs to the end of that line and takes the line
\* break with it; the search goes on behind the match.
strip_comments(adhoc_text) ==
    LET dashes == Find(adhoc_text, "--")
    IN  IF dashes = NOT_FOUND THEN adhoc_text
        ELSE LET line_end == FindIn(adhoc_text, "\n", dashes + 2, Len(adhoc_text) - 1)
             IN  Slice(adhoc_text, 0, WhitespaceStart(adhoc_text, dashes))
                     \o (IF line_end = NOT_FOUND THEN ""
                         ELSE strip_comments(SliceFrom(adhoc_text, line_end + 1)))

\* location_clause of the table of the model
LocationClause == "s3://b/t"

\* The text prep_ddl_script returns for the body of a script.
prep_ddl_script(body) ==
    strip_comments(Replace(Replace(body, "%%LOCATION%%", LocationClause), "%%DATABASE%%", DbName))

MaxBodyLen == 4

BodyAlphabet == {"A", " ", ",", ")", "-", "\n"}

RECURSIVE BodiesUpTo(_)
BodiesUpTo(n) ==
    IF n = 0 THEN {""}
    ELSE LET shorter == BodiesUpTo(n - 1)
         IN  shorter \cup {t \o c : t \in shorter, c \in BodyAlphabet}

\* Complete scripts with comments, parameters and spaces before , and )
CompleteBodies ==
    {"-- orders\nCREATE EXTERNAL TABLE ^%%DATABASE%%^.^t^ (\n  id int,  -- key\n  name string\n)\n"
         \o "STORED AS TEXTFILE\nLOCATION '%%LOCATION%%';\n",
     "CREATE EXTERNAL TABLE ^db^.^t^ (\n  id int -- key\n, name string\n)\n"
         \o "STORED AS TEXTFILE\nLOCATION 's3://b/t';\n",
     "CREATE EXTERNAL TABLE ^db^.^t^ (\n  id int, name string\n)\n"
         \o "STORED AS TEXTFILE\n-- where the files are\nLOCATION 's3://b/t';\n",
     "CREATE EXTERNAL TABLE ^db^.^t^ (\n  id int,\n  name string \n)\n"
         \o "STORED AS TEXTFILE\nLOCATION 's3://b/t';\n",
     "CREATE EXTERNAL TABLE db.t (id int , name string) STORED AS TEXTFILE LOCATION 's3://b/t'"}

ScriptBodies == BodiesUpTo(MaxBodyLen) \cup CompleteBodies

\* The configured table is new to the catalog; athena_tables holds the body of
\* its script.
InitScript ==
    /\ \E body \in ScriptBodies : athena_tables = << TableConfig("t", body) >>
    /\ table_index = 1
    /\ tables_metadata_list = << >>
    /\ executed_queries = << >>
    /\ pc = "prep_ddl_script"
    /\ ddl_text = ""
    /\ table_metadata = << >>
    /\ ddl_clauses_list = InitialDdlClausesList
    /\ ddl_row_format_subclauses_list = InitialDdlRowFormatSubclausesList
    /\ normalized_ddl_text = ""
    /\ ddl_columns_segment = ""
    /\ ddl_other_segments = ""
    /\ ddl_clause_list_sorted = << >>
    /\ ddl_segments = << >>
    /\ calls = << >>
    /\ outcome = Pending
    /\ history = << >>
    /\ split_text = ""
    /\ split_result = SplitRaise("")
    /\ row_format_subclauses_list_sorted = << >>
    /\ row_format_sub_segments = << >>

\* ddl_text = str(prep_ddl_script(table_config, ...))
PrepDdlScript ==
    /\ pc = "prep_ddl_script"
    /\ ddl_text' = prep_ddl_script(athena_tables[table_index].ddl_text)
    /\ pc' = "normalize"
    /\ UNCHANGED << row_format_vars, caller_vars, table_metadata, ddl_clauses_list,
                    ddl_row_format_subclauses_list, normalized_ddl_text, ddl_columns_segment,
                    ddl_other_segments, ddl_clause_list_sorted, ddl_segments, calls, outcome,
                    history, split_text, split_result >>

NextScript ==
    \/ PrepDdlScript
    \/ Normalize

SpecScript == InitScript /\ [][NextScript]_vars

(***************************************************************************)
(* Properties of the text normaliser                                       *)
(***************************************************************************)
\* C24: the text the normalisation of detect_table_changes produces is in
\* lower case, has no two spaces in a row and has no space right before a
\* comma or a closing parenthesis.
NormalizedTextIsCanonical ==
    pc = "split" =>
        /\ normalized_ddl_text = Lower(normalized_ddl_text)
        /\ ~Contains(normalized_ddl_text, "  ")
        /\ ~Contains(normalized_ddl_text, " ,")
        /\ ~Contains(normalized_ddl_text, " )")

(***************************************************************************)
(* Properties of the comment stripper                                      *)
(***************************************************************************)
\* The body of the configured script with its parameters substituted.
SubstitutedBody ==
    Replace(Replace(athena_tables[1].ddl_text, "%%LOCATION%%", LocationClause),
            "%%DATABASE%%", DbName)

RECURSIVE WithoutComments(_)
\* The text without its comments: every -- up to the end of its line is left
\* out, the line break stays.
WithoutComments(text) ==
    LET dashes == Find(text, "--")
    IN  IF dashes = NOT_FOUND THEN text
        ELSE LET line_end == FindIn(text, "\n", dashes + 2, Len(text) - 1)
             IN  Slice(text, 0, dashes)
                     \o (IF line_end = NOT_FOUND THEN "" ELSE WithoutComments(SliceFrom(text, line_end)))

\* Characters that are a token of their own
Punctuation == {",", "(", ")", ";"}

RECURSIVE TokenEnd(_, _)
\* The end of the token that starts at offset 0 of a text, from offset i on
TokenEnd(text, i) ==
    IF i = 0 /\ CharAt(text, 0) \in Punctuation THEN 1
    ELSE IF i < Len(text) /\ CharAt(text, i) \notin RegexWhitespace \cup Punctuation
    THEN TokenEnd(text, i + 1)
    ELSE i

RECURSIVE Tokens(_)
\* The tokens of a text: its punctuation characters and its pieces between
\* white space and punctuation.
Tokens(text) ==
    LET stripped == LStripChars(text, RegexWhitespace)
    IN  IF stripped = "" THEN << >>
        ELSE << Slice(stripped, 0, TokenEnd(stripped, 0)) >>
                 \o Tokens(SliceFrom(stripped, TokenEnd(stripped, 0)))

\* C25: the text strip_comments returns has no -- left, and its tokens are
\* the tokens of the script outside the comments: what a comment and its line
\* break separated is still separated, and nothing else is changed.
StripCommentsKeepsTokens ==
    pc # "prep_ddl_script" =>
        /\ ~Contains(ddl_text, "--")
        /\ Tokens(ddl_text) = Tokens(WithoutComments(SubstitutedBody))

(***************************************************************************)
(* Properties of ROW FORMAT SERDE and ROW FORMAT DELIMITED                 *)
(***************************************************************************)
\* The DDL has ROW FORMAT SERDE '...' and no WITH SERDEPROPERTIES.
IsSerdeWithoutProperties ==
    /\ SegmentStartingWith(ddl_segments, "row format serde '") # None
    /\ ~Contains(RowFormatSegment, "with serdeproperties")

\* The library named between the quotes after ROW FORMAT SERDE.
DdlSerdeLibrary == Split(RowFormatSegment, "'")[2]

\* The metadata with another SerdeInfo element.
WithSerdeInfo(metadata, serde_info) ==
    [metadata EXCEPT !.StorageDescriptor.SerdeInfo = serde_info]

\* C26: for ROW FORMAT SERDE without WITH SERDEPROPERTIES the row-format
\* comparator returns false exactly when the library of the DDL is the
\* lower-cased SerializationLibrary of the metadata, so it returns the same
\* for every metadata that has this library, whatever its serde parameters.
SerdeWithoutPropertiesIgnoresParameters ==
    (Applied("row_format") /\ IsSerdeWithoutProperties) =>
        /\ ResultIn(calls, "row_format")
               = Return(DdlSerdeLibrary # Lower(SerdeInfo.SerializationLibrary))
        /\ \A other \in MetaSerdes :
               other.SerializationLibrary = SerdeInfo.SerializationLibrary
                   => has_row_format_changed(WithSerdeInfo(table_metadata, other), ddl_segments)
                          = ResultIn(calls, "row_format")

\* The sub-clause of ROW FORMAT DELIMITED that has the given words, if any.
DelimitedSubclause(words) == SegmentContaining(row_format_sub_segments, words)

\* The DDL has ROW FORMAT DELIMITED with at least one sub-property.
IsDelimitedWithProperties ==
    /\ SegmentStartingWith(ddl_segments, "row format delimited ") # None
    /\ \E n \in 0..5 : DelimitedSubclause(SubclauseWord(n)) # None

\* The comparisons of the sub-clauses the DDL has, each with the metadata
\* parameter of that sub-clause; ESCAPED BY is compared together with FIELDS
\* TERMINATED BY.
DelimitedComparisons(metadata) ==
    LET fields == DelimitedSubclause("fields terminated by")
        escaped == DelimitedSubclause("escaped by")
        single(words, type) ==
            IF DelimitedSubclause(words) = None THEN {}
            ELSE {have_row_format_delimiters_changed(metadata, DelimitedSubclause(words), Some(type))}
    IN  (IF fields = None THEN {}
         ELSE IF escaped = None
         THEN {have_row_format_delimiters_changed(metadata, fields, Some("fields"))}
         ELSE {have_row_format_delimiters_changed(metadata, Some(fields[1] \o " " \o escaped[1]),
                                                  Some("fields escaped"))})
            \cup single("collection items terminated by", "collection")
            \cup single("map keys terminated by", "map keys")
            \cup single("lines terminated by", "lines")
            \cup single("null defined as", "null defined")

\* The metadata parameters the comparisons of the present sub-clauses read.
ComparedParameters ==
    {"serialization.format"}
        \cup (IF DelimitedSubclause("fields terminated by") = None THEN {} ELSE {"field.delim"})
        \cup (IF DelimitedSubclause("escaped by") = None THEN {} ELSE {"escape.delim"})
        \cup (IF DelimitedSubclause("collection items terminated by") = None THEN {}
              ELSE {"colelction.delim"})
        \cup (IF DelimitedSubclause("map keys terminated by") = None THEN {} ELSE {"mapkey.delim"})
        \cup (IF DelimitedSubclause("lines terminated by") = None THEN {} ELSE {"line.delim"})
        \cup (IF DelimitedSubclause("null defined as") = None THEN {}
              ELSE {"serialization.null.format"})

\* C27: for ROW FORMAT DELIMITED with at least one sub-property the row-format
\* comparator returns true exactly when the comparison of one of the
\* sub-clauses present in the DDL does; a metadata that differs only in the
\* serde library or in delimiter parameters whose sub-clause the DDL does not
\* have gets the same result.
DelimitedPropertiesAreOrAccumulated ==
    (Applied("row_format") /\ IsDelimitedWithProperties) =>
        /\ ResultIn(calls, "row_format")
               = Return(\E comparison \in DelimitedComparisons(table_metadata) : comparison.val)
        /\ \A other \in MetaSerdes :
               (\A key \in ComparedParameters :
                     MetaDelimiter(other.Parameters, key) = MetaDelimiter(SerdeInfo.Parameters, key))
                   => has_row_format_changed(WithSerdeInfo(table_metadata, other), ddl_segments)
                          = ResultIn(calls, "row_format")

\* FIELDS TERMINATED BY ',' LINES TERMINATED BY '\n' against a metadata with
\* another field delimiter and the same line delimiter: the first comparison
\* reports a change, the second does not, and a change is returned.
WitnessOneOfTwoSubclausesChanged ==
    /\ Applied("row_format")
    /\ IsDelimitedWithProperties
    /\ DelimitedSubclause("fields terminated by") # None
    /\ DelimitedSubclause("lines terminated by") # None
    /\ have_row_format_delimiters_changed(table_metadata, DelimitedSubclause("fields terminated by"),
                                          Some("fields")) = Return(TRUE)
    /\ have_row_format_delimiters_changed(table_metadata, DelimitedSubclause("lines terminated by"),
                                          Some("lines")) = Return(FALSE)
    /\ ResultIn(calls, "row_format") = Return(TRUE)

(***************************************************************************)
(* Properties of the clause index with respect to quoted literals          *)
(***************************************************************************)
\* The number of backslashes right before offset i.
BackslashesBefore(text, i) ==
    CHOOSE k \in 0..i :
        /\ \A j \in 1..k : CharAt(text, i - j) = "\\"
        /\ (k = i \/ CharAt(text, i - k - 1) # "\\")

\* The offsets below i of the quotes that open or close a literal.
QuotesBefore(text, i) ==
    {j \in 0..(i - 1) : CharAt(text, j) = "'" /\ BackslashesBefore(text, j) % 2 = 0}

\* Offset i lies inside a single-quoted literal of the text.
InsideLiteral(text, i) == Cardinality(QuotesBefore(text, i)) % 2 = 1

\* C28: no offset recorded by index_ddl_clauses lies inside a single-quoted
\* literal, for the clauses of the statement and for the sub-clauses of ROW
\* FORMAT, and every segment holds its literals whole.
MarkersInsideLiteralsAreNotIndexed ==
    /\ (pc # "prepare" /\ outcome.kind # "raise") =>
           /\ \A n \in 1..Len(ddl_clause_list_sorted) :
                  ddl_clause_list_sorted[n].Index # NOT_FOUND
                      => ~InsideLiteral(ddl_other_segments, ddl_clause_list_sorted[n].Index)
           /\ \A n \in 1..Len(ddl_segments) :
                  ~InsideLiteral(ddl_segments[n], Len(ddl_segments[n]))
    /\ Applied("row_format_type") =>
           /\ \A n \in 1..Len(row_format_subclauses_list_sorted) :
                  row_format_subclauses_list_sorted[n].Index # NOT_FOUND
                      => ~InsideLiteral(RowFormatSegment, row_format_subclauses_list_sorted[n].Index)
           /\ \A n \in 1..Len(row_format_sub_segments) :
                  ~InsideLiteral(row_format_sub_segments[n], Len(row_format_sub_segments[n]))

(***************************************************************************)
(* Properties of execute_query and of the run over the configured tables   *)
(***************************************************************************)
WaitingForQuery == {"wait_drop", "wait_create", "wait_reload"}

IsDropQuery(query_string) == StartsWith(query_string, "DROP ")

\* C29: execute_query waits until the query has left the states QUEUED and
\* RUNNING, returns normally only when the final state is SUCCEEDED and
\* raises for every other final state; hence in a recreate no statement
\* follows a DROP that did not succeed.
ExecuteQueryReturnsOnlyOnSuccess ==
    /\ [][(pc \in WaitingForQuery /\ pc' \notin WaitingForQuery) =>
              LET state == executed_queries[Len(executed_queries)].state
              IN  /\ state \notin {"QUEUED", "RUNNING"}
                  /\ pc' # "aborted" <=> state = "SUCCEEDED"]_vars
    /\ [](\A n \in 1..(Len(executed_queries) - 1) :
              IsDropQuery(executed_queries[n].query) => executed_queries[n].state = "SUCCEEDED")

\* The position of the table with this name in config_dict['athena_tables'].
ConfigurationIndex(table_name) ==
    CHOOSE i \in 1..Len(athena_tables) : athena_tables[i].table_name = table_name

\* C30: the configured tables are handled strictly in configuration order,
\* and an error raised while one table is handled (an exception of the
\* detector, or a query that FAILED) ends the run: no statement is issued
\* after it, for that table or for a later one, and the statements issued
\* before stay as they were issued.
ErrorEndsTheRun ==
    /\ [](/\ \A n \in 1..Len(executed_queries) :
                 ConfigurationIndex(executed_queries[n].table) <= table_index
          /\ \A n \in 1..(Len(executed_queries) - 1) :
                 /\ ConfigurationIndex(executed_queries[n].table)
                        <= ConfigurationIndex(executed_queries[n + 1].table)
                 /\ executed_queries[n].state # "FAILED")
    /\ [][/\ table_index' \in {table_index, table_index + 1}
          /\ (pc = "done" /\ outcome.kind = "raise") => pc' = "aborted"
          /\ (pc \in WaitingForQuery /\ pc' \notin WaitingForQuery
                /\ executed_queries[Len(executed_queries)].state = "FAILED") => pc' = "aborted"
          /\ pc # "aborted"
          /\ Len(executed_queries') >= Len(executed_queries)
          /\ \A n \in 1..Len(executed_queries) :
                 /\ executed_queries'[n].table = executed_queries[n].table
                 /\ executed_queries'[n].query = executed_queries[n].query
                 /\ (n < Len(executed_queries) =>
                        executed_queries'[n].state = executed_queries[n].state)]_vars

\* The view was created again, the query of the second table failed, and
\* the third table of the configuration was never handled.
WitnessRunEndedBeforeLastTable ==
    /\ pc = "aborted"
    /\ Len(athena_tables) = 3
    /\ table_index = 2
    /\ Len(executed_queries) >= 2
    /\ executed_queries[1].table = athena_tables[1].table_name
    /\ executed_queries[1].state = "SUCCEEDED"
    /\ executed_queries[Len(executed_queries)].state = "FAILED"

\* The detector raised on the second table, after the view was created
\* again, and the third table of the configuration was never handled.
WitnessDetectorErrorEndedRun ==
    /\ pc = "aborted"
    /\ Len(athena_tables) = 3
    /\ table_index = 2
    /\ outcome.kind = "raise"
    /\ Len(executed_queries) = 1
    /\ executed_queries[1].table = athena_tables[1].table_name

====
